---- MODULE Spec2Model ----
(***************************************************************************)
(* Agent orchestration layer of Python-dataops-agent: the registry         *)
(* (agents/registry.py), the manager (agents/agent_manager.py) and the      *)
(* agent contract (agents/base_agent.py).                                   *)
(*                                                                          *)
(* Scheduling: asyncio, one event loop.  A coroutine runs without           *)
(* interruption between two awaits that suspend.  execute_agent suspends    *)
(* only inside asyncio.wait_for(process(...)): everything before it         *)
(* (create_agent, the enabled check, status = RUNNING) is one step, and     *)
(* everything after it (the status write, _record_execution, the return)    *)
(* is one step.                                                             *)
(***************************************************************************)
EXTENDS Naturals, Sequences, FiniteSets, TLC

\* ------------------------------------------------------------------ bounds
MaxCalls == 3        \* execute_agent invocations in one behaviour
MaxHistory == 2      \* AgentManager._max_history (1000 in the source)
MaxInstances == 2    \* agent objects ever constructed
MaxTasks == 2        \* len(tasks) of the execute_parallel invocation
MaxPoolCalls == 2    \* execute_agent invocations while the pool is being changed
MaxLimit == 3        \* the largest limit passed to get_execution_history
MaxRequests == 3     \* HTTP requests in one behaviour
MaxRaceCalls == 1    \* execute_agent invocations beside a health_check and pool changes

Names == {"a", "b"}          \* agent names callers use
Sids == {"s1"}               \* session ids callers supply
NoSid == "absent"            \* kwargs holds no "session_id"

VARIABLES
    registry,    \* AgentRegistry: _agents, _agent_configs, _agent_metadata
    instances,   \* every BaseAgent object constructed so far (the heap)
    pool,        \* AgentManager._instances: name -> index into instances, 0 = absent
    history,     \* AgentManager._execution_history
    calls,       \* one record per execute_agent invocation
    recorded,    \* ghost: the calls whose record was appended, in append order
    batch,       \* the execute_parallel invocation
    ret,         \* what the latest registry or pool operation returned to its caller
    health,      \* the AgentManager.health_check invocation
    wf,          \* the workflow graph run of a concrete agent's process
    flow,        \* the LangGraph state of one metric or table workflow run
    http         \* the FastAPI application: registered names, pool, requests

vars == <<registry, instances, pool, history, calls, recorded, batch, ret, health, wf,
          flow, http>>

\* ------------------------------------------------------------- base_agent
Terminal == {"completed", "failed", "timeout"}
AgentStatus == {"idle", "running"} \cup Terminal

\* kwargs.get("session_id", default)
KwargsGet(sid, default) == IF sid = NoSid THEN default ELSE sid

\* f"{name}_{int(time.time())}"
DerivedSid(name) == name \o "_t"

\* BaseAgent.__init__: the object a factory builds from a config
NewAgent(config) ==
    [name |-> config.name, enabled |-> config.enabled,
     max_retries |-> config.max_retries, status |-> "idle"]

\* The responses process may return: AgentResponse(success=True, data=...),
\* AgentResponse(success=False, error=...), and, from MetricManagementAgent
\* (metric_agent.py 188-203), AgentResponse(success=success, data=...) with the
\* success flag of the workflow state, which a node may have set to False; its
\* error keeps the dataclass default None, modelled as "".  session_id and
\* agent_name keep the dataclass defaults.
ProcessResults ==
    { [success |-> TRUE, error |-> "", session_id |-> "", agent_name |-> ""],
      [success |-> FALSE, error |-> "process_error", session_id |-> "", agent_name |-> ""],
      [success |-> FALSE, error |-> "", session_id |-> "", agent_name |-> ""] }

\* The results of TableManagementAgent and ETLDevelopmentAgent: a failure
\* carries an error text.
ResultsWithError == {r \in ProcessResults : r.success \/ r.error # ""}

\* EnterExecute as it would be if the disabled branch wrote FAILED.
EnterExecuteBadDisabled(agent, sid) ==
    IF ~agent.enabled
    THEN [returned |-> TRUE, status |-> "failed",
          resp |-> [success |-> FALSE, error |-> "disabled",
                    session_id |-> KwargsGet(sid, ""), agent_name |-> agent.name]]
    ELSE [returned |-> FALSE, status |-> "running",
          resp |-> [success |-> FALSE, error |-> "", session_id |-> "", agent_name |-> ""]]

\* execute_with_timeout up to the await: the enabled check, then status = RUNNING.
EnterExecute(agent, sid) ==
    IF ~agent.enabled
    THEN [returned |-> TRUE, status |-> agent.status,
          resp |-> [success |-> FALSE, error |-> "disabled",
                    session_id |-> KwargsGet(sid, ""), agent_name |-> agent.name]]
    ELSE [returned |-> FALSE, status |-> "running",
          resp |-> [success |-> FALSE, error |-> "", session_id |-> "", agent_name |-> ""]]

\* asyncio.wait_for(process(...), timeout): what the await yields, from how the
\* process coroutine ended.  On expiry wait_for cancels the coroutine and waits
\* for it to end: a coroutine that ends cancelled yields TimeoutError, one that
\* swallows the cancellation and returns yields its result, one that raises
\* yields that exception.
WaitFor(ended) ==
    CASE ended = "cancelled" -> "timeout"
      [] ended = "returned" -> "result"
      [] ended = "raised" -> "exception"

\* OnResult as it would be if it ignored result.success.
OnResultAlwaysCompleted(agent, sid, result) ==
    [status |-> "completed",
     resp |-> [result EXCEPT !.session_id = KwargsGet(sid, DerivedSid(agent.name)),
                             !.agent_name = agent.name]]

\* OnResult as it would be if a success reset the status to IDLE.
OnResultBackToIdle(agent, sid, result) ==
    [status |-> IF result.success THEN "idle" ELSE "failed",
     resp |-> [result EXCEPT !.session_id = KwargsGet(sid, DerivedSid(agent.name)),
                             !.agent_name = agent.name]]

\* Lines 141-156: the result of process, within the try.
OnResult(agent, sid, result) ==
    [status |-> IF result.success THEN "completed" ELSE "failed",
     resp |-> [result EXCEPT !.session_id = KwargsGet(sid, DerivedSid(agent.name)),
                             !.agent_name = agent.name]]

\* OnTimeout as it would be if the timeout response took a session id of its own.
OnTimeoutOwnSid(agent, sid) ==
    [status |-> "timeout",
     resp |-> [success |-> FALSE, error |-> "timeout",
               session_id |-> DerivedSid(agent.name),
               agent_name |-> agent.name]]

\* Lines 158-169: except asyncio.TimeoutError.
OnTimeout(agent, sid) ==
    [status |-> "timeout",
     resp |-> [success |-> FALSE, error |-> "timeout",
               session_id |-> KwargsGet(sid, DerivedSid(agent.name)),
               agent_name |-> agent.name]]

\* OnException as it would be if it left the status alone.
OnExceptionStaysRunning(agent, sid) ==
    [status |-> "running",
     resp |-> [success |-> FALSE, error |-> "exception",
               session_id |-> KwargsGet(sid, DerivedSid(agent.name)),
               agent_name |-> agent.name]]

\* Lines 171-183: except Exception.
OnException(agent, sid) ==
    [status |-> "failed",
     resp |-> [success |-> FALSE, error |-> "exception",
               session_id |-> KwargsGet(sid, DerivedSid(agent.name)),
               agent_name |-> agent.name]]

\* LeaveExecute as it would be if a status that another execution has already
\* made terminal were kept.
LeaveExecuteKeepsTerminal(agent, sid, ended, result) ==
    LET left == CASE WaitFor(ended) = "result" -> OnResult(agent, sid, result)
                  [] WaitFor(ended) = "timeout" -> OnTimeout(agent, sid)
                  [] WaitFor(ended) = "exception" -> OnException(agent, sid)
    IN [status |-> IF agent.status \in Terminal THEN agent.status ELSE left.status,
        resp |-> left.resp]

\* execute_with_timeout from the await on: the status it writes and the response
\* it returns.
LeaveExecute(agent, sid, ended, result) ==
    CASE WaitFor(ended) = "result" -> OnResult(agent, sid, result)
      [] WaitFor(ended) = "timeout" -> OnTimeout(agent, sid)
      [] WaitFor(ended) = "exception" -> OnException(agent, sid)

\* --------------------------------------------------------------- registry
\* What factory.create_agent(config) does when it is invoked: it builds an agent,
\* raises (BaseAgent._initialize_llm raises without an API key), or returns None.
FactoryKinds == {"ok", "raises", "none"}

\* AgentConfig.timeout when the constructor is not given one
DefaultTimeout == 300

\* AgentConfig.max_retries when the constructor is not given one
DefaultMaxRetries == 3

\* The fields of AgentConfig the registry merges one by one (name has no default).
ConfigFields == {"name", "version", "description", "timeout", "max_retries", "enabled"}

\* The dataclass defaults of AgentConfig.
FieldDefaults ==
    [name |-> "", version |-> "1.0.0", description |-> "", timeout |-> DefaultTimeout,
     max_retries |-> DefaultMaxRetries, enabled |-> TRUE]

\* AgentConfig(**kw): the fields of given take their values from vals, every
\* other field takes the dataclass default.
AgentConfig(given, vals) ==
    [f \in ConfigFields |-> IF f \in given THEN vals[f] ELSE FieldDefaults[f]]

\* AgentConfig(name=name)
DefaultConfig(name) == AgentConfig({"name"}, [name |-> name])

\* SimpleAgentFactory(agent_class)
SimpleAgentFactory(agent_class) == [agent_class |-> agent_class]

\* SimpleAgentFactory.get_default_config()
GetDefaultConfig ==
    AgentConfig({"name", "version", "description"},
                [name |-> "simple_agent", version |-> "1.0.0",
                 description |-> "Simple Agent"])

\* AgentRegistry.__init__ and clear(): three empty dicts.  A dict maps each key
\* to <<value>>, and a name that is not a key to <<>>.
EmptyRegistry ==
    [agents |-> [n \in Names |-> <<>>],
     configs |-> [n \in Names |-> <<>>],
     metadata |-> [n \in Names |-> <<>>]]

\* name in self._agents
IsRegistered(name) == registry.agents[name] # <<>>

\* get_factory / get_config / get_metadata: dict.get(name), <<>> for None
GetFactory(name) == registry.agents[name]
GetConfig(name) == registry.configs[name]
GetMetadata(name) == registry.metadata[name]

\* list_agents(): the keys of _agents (their order is not modelled)
ListAgents == {n \in Names : registry.agents[n] # <<>>}

\* x or y, for a field whose empty value is falsy
OrElse(x, y, falsy) == IF x # falsy THEN x ELSE y

\* Lines 89-100: the merged AgentConfig.  A bool is never None, so enabled is
\* always the override's.
MergeConfig(base, override) ==
    [name |-> OrElse(override.name, base.name, ""),
     version |-> OrElse(override.version, base.version, ""),
     description |-> OrElse(override.description, base.description, ""),
     timeout |-> OrElse(override.timeout, base.timeout, 0),
     max_retries |-> OrElse(override.max_retries, base.max_retries, 0),
     enabled |-> override.enabled]

\* A config_override as the caller built it: given is the set of fields passed
\* to the AgentConfig constructor, config is <<the object>>.  NoOverride is None.
NoOverride == [given |-> {}, config |-> <<>>]

\* Lines 84-102: the config create_agent hands to the factory.
MergedConfig(name, override) ==
    IF override.config # <<>>
    THEN MergeConfig(GetConfig(name)[1], override.config[1])
    ELSE GetConfig(name)[1]

\* RegistryCreateAgent as it would be if it returned an agent whatever the
\* factory did.
RegistryCreateAgentIgnoresFailure(name, override, built) ==
    IF GetFactory(name) = <<>> THEN <<>>
    ELSE <<NewAgent(MergedConfig(name, override))>>

\* AgentRegistry.create_agent(name, config_override): <<agent>>, or <<>> for None.
RegistryCreateAgent(name, override, built) ==
    IF GetFactory(name) = <<>> THEN <<>>
    ELSE IF built = "ok" THEN <<NewAgent(MergedConfig(name, override))>>
    ELSE <<>>

\* ---------------------------------------------------------------- manager
\* How often create_agent invokes the factory of name when it asks the registry.
FactoryCalls(name) == IF GetFactory(name) # <<>> THEN 1 ELSE 0

\* ManagerCreateAgent as it would be if it ignored the pool and always asked the
\* registry.
ManagerCreateAgentNeverReuses(name, config, reuse_existing, built) ==
    LET made == RegistryCreateAgent(name, config, built) IN
    IF made # <<>>
    THEN [agent |-> Len(instances) + 1,
          pool |-> [pool EXCEPT ![name] = Len(instances) + 1],
          instances |-> instances \o made, factory_calls |-> FactoryCalls(name)]
    ELSE [agent |-> 0, pool |-> pool, instances |-> instances,
          factory_calls |-> FactoryCalls(name)]

\* ManagerCreateAgent as it would be if a config argument made it build a new
\* instance in place of the pooled one.
ManagerCreateAgentRebuildsOnConfig(name, config, reuse_existing, built) ==
    IF reuse_existing /\ pool[name] # 0 /\ config = NoOverride
    THEN [agent |-> pool[name], pool |-> pool, instances |-> instances,
          factory_calls |-> 0]
    ELSE LET made == RegistryCreateAgent(name, config, built) IN
         IF made # <<>>
         THEN [agent |-> Len(instances) + 1,
               pool |-> [pool EXCEPT ![name] = Len(instances) + 1],
               instances |-> instances \o made, factory_calls |-> FactoryCalls(name)]
         ELSE [agent |-> 0, pool |-> pool, instances |-> instances,
               factory_calls |-> FactoryCalls(name)]

\* AgentManager.create_agent(name, config, reuse_existing): the instance it
\* returns (0 for None), the new pool and heap, and how often it invoked the
\* factory.
ManagerCreateAgent(name, config, reuse_existing, built) ==
    IF reuse_existing /\ pool[name] # 0
    THEN [agent |-> pool[name], pool |-> pool, instances |-> instances,
          factory_calls |-> 0]
    ELSE LET made == RegistryCreateAgent(name, config, built) IN
         IF made # <<>>
         THEN [agent |-> Len(instances) + 1,
               pool |-> [pool EXCEPT ![name] = Len(instances) + 1],
               instances |-> instances \o made, factory_calls |-> FactoryCalls(name)]
         ELSE [agent |-> 0, pool |-> pool, instances |-> instances,
               factory_calls |-> FactoryCalls(name)]

\* AgentManager.list_active_agents(): the pooled names whose instance is RUNNING
ListActiveAgents == {n \in Names : pool[n] # 0 /\ instances[pool[n]].status = "running"}

\* The record _record_execution builds from a response.
HistoryRecord(response) ==
    [agent_name |-> response.agent_name, session_id |-> response.session_id,
     success |-> response.success, error |-> response.error]

\* history[-n:] for n >= 1
LastN(s, n) == IF Len(s) > n THEN SubSeq(s, Len(s) - n + 1, Len(s)) ELSE s

\* RecordExecution as it would be with the slice [:max] in place of [-max:].
RecordExecutionKeepsOldest(hist, response) ==
    LET h == Append(hist, HistoryRecord(response)) IN
    IF Len(h) > MaxHistory THEN SubSeq(h, 1, MaxHistory) ELSE h

\* AgentManager._record_execution
RecordExecution(hist, response) ==
    LET h == Append(hist, HistoryRecord(response)) IN
    IF Len(h) > MaxHistory THEN LastN(h, MaxHistory) ELSE h

\* CreateFailed as it would be if the synthesized response said success.
CreateFailedSucceeds(hist, name, sid) ==
    LET response == [success |-> TRUE, error |-> "",
                     session_id |-> KwargsGet(sid, DerivedSid(name)), agent_name |-> name]
    IN [resp |-> response, history |-> RecordExecution(hist, response)]

\* CreateFailed as it would be if the early return skipped _record_execution.
CreateFailedNotRecorded(hist, name, sid) ==
    LET response == [success |-> FALSE, error |-> "create_failed",
                     session_id |-> KwargsGet(sid, DerivedSid(name)), agent_name |-> name]
    IN [resp |-> response, history |-> hist]

\* execute_agent, lines 74-85: no instance.
CreateFailed(hist, name, sid) ==
    LET response == [success |-> FALSE, error |-> "create_failed",
                     session_id |-> KwargsGet(sid, DerivedSid(name)), agent_name |-> name]
    IN [resp |-> response, history |-> RecordExecution(hist, response)]

NoResponse == [success |-> FALSE, error |-> "", session_id |-> "", agent_name |-> ""]

\* execute_agent was given no named parameter besides session_id.
NoExtra == ""

\* A call of execute_agent that has not run yet.  extra stands for the named
\* parameters besides session_id the caller passed, config is the config
\* argument (NoOverride for None).  tries counts the
\* invocations of process the call has made, factory_calls the invocations of
\* the factory its create_agent has made; proc_sid and proc_extra are the
\* session_id and the other named parameters process was invoked with (NoSid
\* and NoExtra when there are none).
NewCall(name, sid, slot) ==
    [name |-> name, sid |-> sid, extra |-> NoExtra, config |-> NoOverride,
     slot |-> slot, pc |-> "new", inst |-> 0, factory_calls |-> 0, proc |-> "none", tries |-> 0,
     proc_sid |-> NoSid, proc_extra |-> NoExtra, resp |-> NoResponse]

\* execute_agent up to its first suspension (lines 58-88 and base_agent 118-139):
\* the new values of the call, the pool, the heap and the history.
Begin(call, built) ==
    LET got == ManagerCreateAgent(call.name, call.config, TRUE, built) IN
    IF got.agent = 0
    THEN LET failed == CreateFailed(history, call.name, call.sid) IN
         [call |-> [call EXCEPT !.pc = "done", !.resp = failed.resp,
                               !.factory_calls = got.factory_calls],
          pool |-> got.pool, instances |-> got.instances,
          history |-> failed.history, rec |-> TRUE]
    ELSE LET agent == got.instances[got.agent]
             enter == EnterExecute(agent, call.sid)
         IN IF enter.returned
            THEN [call |-> [call EXCEPT !.pc = "done", !.inst = got.agent,
                                        !.factory_calls = got.factory_calls,
                                        !.resp = enter.resp],
                  pool |-> got.pool,
                  instances |-> [got.instances EXCEPT ![got.agent].status = enter.status],
                  history |-> RecordExecution(history, enter.resp), rec |-> TRUE]
            ELSE [call |-> [call EXCEPT !.pc = "awaiting", !.inst = got.agent,
                                        !.factory_calls = got.factory_calls,
                                        !.proc = "running", !.tries = 1,
                                        !.proc_sid = call.sid,
                                        !.proc_extra = call.extra],
                  pool |-> got.pool,
                  instances |-> [got.instances EXCEPT ![got.agent].status = enter.status],
                  history |-> history, rec |-> FALSE]

\* End as it would be if execute_with_timeout ran process again after a failed
\* attempt (an exception or an expired deadline) while the instance's
\* max_retries allow it.
EndRetriesOnFailure(c, ended, result) ==
    LET call == calls[c]
        left == LeaveExecute(instances[call.inst], call.sid, ended, result)
    IN IF ended # "returned" /\ call.tries <= instances[call.inst].max_retries
       THEN /\ calls' = [calls EXCEPT ![c] = [@ EXCEPT !.proc = "running",
                                                       !.tries = @ + 1]]
            /\ UNCHANGED <<registry, instances, pool, history, recorded, batch,
                           ret, health, wf, flow, http>>
       ELSE /\ instances' = [instances EXCEPT ![call.inst].status = left.status]
            /\ history' = RecordExecution(history, left.resp)
            /\ recorded' = Append(recorded, c)
            /\ calls' = [calls EXCEPT ![c] = [@ EXCEPT !.pc = "done", !.proc = ended,
                                                        !.resp = left.resp]]
            /\ UNCHANGED <<registry, pool, batch, ret, health, wf, flow, http>>

\* execute_agent from the resumption of execute_with_timeout to its return
\* (base_agent 141-183, agent_manager 88-98): one attempt, no loop.
End(c, ended, result) ==
    LET call == calls[c]
        left == LeaveExecute(instances[call.inst], call.sid, ended, result)
    IN /\ instances' = [instances EXCEPT ![call.inst].status = left.status]
       /\ history' = RecordExecution(history, left.resp)
       /\ recorded' = Append(recorded, c)
       /\ calls' = [calls EXCEPT ![c] = [@ EXCEPT !.pc = "done", !.proc = ended,
                                                   !.resp = left.resp]]
       /\ UNCHANGED <<registry, pool, batch, ret, health, wf, flow, http>>

\* ---------------------------------------------------------------- actions
\* No registry operation has returned yet.  A return is logged with the
\* operation and its arguments (name, override), what the factory did when it
\* was invoked (built), the value returned (ok for a bool, made for an agent or
\* None) and the config handed to the factory (passed).
NoReturn ==
    [op |-> "none", name |-> "", override |-> NoOverride, built |-> "",
     ok |-> FALSE, made |-> <<>>, passed |-> <<>>]

\* health_check(agent_name) was called without a name (None)
NoName == ""

\* get_execution_history(agent_name, limit) (lines 280-296): agent_name is
\* NoName for None, limit is <<>> for None and <<n>> for the int n; a filter or
\* a limit applies when it is truthy.  The call assigns to nothing.
GetExecutionHistory(agent_name, limit) ==
    LET filtered == IF agent_name # NoName
                    THEN SelectSeq(history, LAMBDA h : h.agent_name = agent_name)
                    ELSE history
    IN IF limit # <<>> /\ limit[1] # 0 THEN LastN(filtered, limit[1]) ELSE filtered

\* No health_check has been called.  A call keeps its argument (arg), the names
\* whose instances it probes, in probing order (keys), the probe results so far
\* (results, "" for none yet) and, once it has returned, the status of the
\* result for one name (status) or the overall_status for all.
NoHealthCheck ==
    [state |-> "none", arg |-> NoName, keys |-> <<>>,
     results |-> [n \in Names |-> ""], status |-> "", overall |-> ""]

\* main_api before the agents package is imported: nothing is registered, no
\* instance is pooled and no request has come in.
NoHttp == [imported |-> FALSE, registered |-> {}, pooled |-> {}, requests |-> <<>>]

\* No metric or table workflow has been started.  A run holds what its
\* collaborators will do (llm: the operation_type in the parsed analysis, or
\* "raises" when the chain raises; lookup and found: the query for the existing
\* entity; built: the construction of the schema or TableInfo) and the fields of
\* the LangGraph state: analysis_result["operation_type"], whether the existing
\* entity is truthy, the branch execute_operation took, final_result.status,
\* state["success"], and <<success>> of the AgentResponse once process returned.
NoFlow ==
    [agent |-> "none", at |-> "none", llm |-> "", lookup |-> "", found |-> FALSE,
     built |-> "", operation_type |-> "", existing |-> FALSE, branch |-> "",
     status |-> "", success |-> FALSE, response |-> <<>>]

\* No graph has run yet.  A run is the graph of kind, started by process of
\* execute_agent call number call (mode "invoke") or by process_stream (mode
\* "stream"); at is the node to run next, value the workflow state (the nodes
\* that have written to it, in order), trace the nodes executed with the state
\* each received, success the flag of the final state, chunks the steps of the
\* chunks process_stream has yielded.
NoWorkflow ==
    [kind |-> "", call |-> 0, mode |-> "none", state |-> "none", at |-> "",
     trace |-> <<>>, value |-> <<>>, success |-> FALSE, chunks |-> <<>>]

Init ==
    /\ registry = EmptyRegistry
    /\ instances = <<>>
    /\ pool = [n \in Names |-> 0]
    /\ history = <<>>
    /\ calls = <<>>
    /\ recorded = <<>>
    /\ batch = [state |-> "none", first |-> 0, n |-> 0, results |-> <<>>,
                missing |-> {}]
    /\ ret = NoReturn
    /\ health = NoHealthCheck
    /\ wf = NoWorkflow
    /\ flow = NoFlow
    /\ http = NoHttp

\* metadata or {}
MetadataOrEmpty(metadata) == IF metadata = "none" THEN "empty" ELSE metadata

\* Registered as it would be if an existing entry were kept.
RegisteredKeepsExisting(name, factory, config, metadata) ==
    IF IsRegistered(name) THEN registry
    ELSE [agents |-> [registry.agents EXCEPT ![name] = <<factory>>],
          configs |-> [registry.configs EXCEPT
                          ![name] = IF config # <<>> THEN config
                                    ELSE <<GetDefaultConfig>>],
          metadata |-> [registry.metadata EXCEPT
                          ![name] = <<MetadataOrEmpty(metadata)>>]]

\* Registered as it would be if no metadata entry were stored when the caller
\* passes none.
RegisteredWithoutMetadata(name, factory, config, metadata) ==
    [agents |-> [registry.agents EXCEPT ![name] = <<factory>>],
     configs |-> [registry.configs EXCEPT
                     ![name] = IF config # <<>> THEN config
                               ELSE <<GetDefaultConfig>>],
     metadata |-> IF metadata = "none" THEN registry.metadata
                  ELSE [registry.metadata EXCEPT
                          ![name] = <<MetadataOrEmpty(metadata)>>]]

\* Lines 32-34 of register: the three dicts after the three assignments.
Registered(name, factory, config, metadata) ==
    [agents |-> [registry.agents EXCEPT ![name] = <<factory>>],
     configs |-> [registry.configs EXCEPT
                     ![name] = IF config # <<>> THEN config
                               ELSE <<GetDefaultConfig>>],
     metadata |-> [registry.metadata EXCEPT
                     ![name] = <<MetadataOrEmpty(metadata)>>]]

\* AgentRegistry.register(name, factory, config, metadata); config is <<>> for
\* None, metadata is "none", "empty" ({}) or a non-empty dict.
Register(name, factory, config, metadata) ==
    /\ registry' = Registered(name, factory, config, metadata)
    /\ UNCHANGED <<instances, pool, history, calls, recorded, batch, ret, health, wf, flow, http>>

\* AgentRegistry.register_class(name, agent_class, config, metadata)
RegisterClass(name, agent_class, config, metadata) ==
    Register(name, SimpleAgentFactory(agent_class), config, metadata)

\* AgentRegistry.unregister(name): deletes the three entries and returns whether
\* the name was registered.
Unregister(name) ==
    /\ registry' =
           IF IsRegistered(name)
           THEN [agents |-> [registry.agents EXCEPT ![name] = <<>>],
                 configs |-> [registry.configs EXCEPT ![name] = <<>>],
                 metadata |-> [registry.metadata EXCEPT ![name] = <<>>]]
           ELSE registry
    /\ ret' = [NoReturn EXCEPT !.op = "unregister", !.name = name,
                                !.ok = IsRegistered(name)]
    /\ UNCHANGED <<instances, pool, history, calls, recorded, batch, health, wf, flow, http>>

\* The keys of one of the registry's dicts.
Keys(dict) == {n \in Names : dict[n] # <<>>}

\* AgentRegistry.get_agent_info(name), lines 116-137: None for a name that is not
\* in _agents; otherwise it reads the attributes of get_config(name), which
\* raises AttributeError on None, and puts get_metadata(name) into the result.
GetAgentInfo(name) ==
    IF ~IsRegistered(name)
    THEN [state |-> "none", name |-> name, factory |-> <<>>, config |-> <<>>,
          metadata |-> <<>>]
    ELSE IF GetConfig(name) = <<>>
    THEN [state |-> "raised", name |-> name, factory |-> <<>>, config |-> <<>>,
          metadata |-> <<>>]
    ELSE [state |-> "info", name |-> name, factory |-> GetFactory(name),
          config |-> GetConfig(name), metadata |-> GetMetadata(name)]

\* AgentRegistry.clear()
Clear ==
    /\ registry' = EmptyRegistry
    /\ UNCHANGED <<instances, pool, history, calls, recorded, batch, ret, health, wf, flow, http>>

\* A direct call of AgentRegistry.create_agent(name, config_override): what it
\* returns, and the config it handed to the factory when it invoked one.
RegistryCreate(name, override, built) ==
    /\ ret' = [op |-> "create_agent", name |-> name, override |-> override,
               built |-> built,
               ok |-> (RegistryCreateAgent(name, override, built) # <<>>),
               made |-> RegistryCreateAgent(name, override, built),
               passed |-> IF GetFactory(name) # <<>>
                          THEN <<MergedConfig(name, override)>> ELSE <<>>]
    /\ UNCHANGED <<registry, instances, pool, history, calls, recorded, batch, health, wf, flow, http>>

\* register_table_agent and its like: a name registered with its agent class,
\* an explicit config of that name, and metadata.
RegisterAgent(n) ==
    /\ ~IsRegistered(n)
    /\ Register(n, SimpleAgentFactory(n), <<DefaultConfig(n)>>, "m1")

\* agent.config.enabled = value, set by the host on a live instance
SetEnabled(i, value) ==
    /\ i \in 1..Len(instances)
    /\ instances[i].enabled # value
    /\ instances' = [instances EXCEPT ![i].enabled = value]
    /\ UNCHANGED <<registry, pool, history, calls, recorded, batch, ret, health, wf, flow, http>>

\* A direct call of AgentManager.create_agent(name, config, reuse_existing): it
\* has no suspension point.
CreateAgent(name, config, reuse_existing, built) ==
    /\ LET got == ManagerCreateAgent(name, config, reuse_existing, built)
       IN /\ Len(got.instances) <= MaxInstances
          /\ pool' = got.pool
          /\ instances' = got.instances
    /\ UNCHANGED <<registry, history, calls, recorded, batch, ret, health, wf, flow, http>>

\* A direct call of AgentManager.execute_agent(name, user_input, session_id=sid,
\* **extra), up to its first suspension.
ExecuteAgentWith(name, sid, extra, built) ==
    /\ Len(calls) < MaxCalls
    /\ LET c == Len(calls) + 1
           b == Begin([NewCall(name, sid, 0) EXCEPT !.extra = extra], built)
       IN /\ Len(b.instances) <= MaxInstances
          /\ calls' = Append(calls, b.call)
          /\ pool' = b.pool
          /\ instances' = b.instances
          /\ history' = b.history
          /\ recorded' = IF b.rec THEN Append(recorded, c) ELSE recorded
    /\ UNCHANGED <<registry, batch, ret, health, wf, flow, http>>

\* A direct call of AgentManager.execute_agent(name, user_input, config=config),
\* up to its first suspension.
ExecuteAgentConfigured(name, config, built) ==
    /\ Len(calls) < MaxCalls
    /\ LET c == Len(calls) + 1
           b == Begin([NewCall(name, NoSid, 0) EXCEPT !.config = config], built)
       IN /\ Len(b.instances) <= MaxInstances
          /\ calls' = Append(calls, b.call)
          /\ pool' = b.pool
          /\ instances' = b.instances
          /\ history' = b.history
          /\ recorded' = IF b.rec THEN Append(recorded, c) ELSE recorded
    /\ UNCHANGED <<registry, batch, ret, health, wf, flow, http>>

\* A direct call of AgentManager.execute_agent(name, user_input, session_id=sid),
\* up to its first suspension.
ExecuteAgent(name, sid, built) ==
    /\ Len(calls) < MaxCalls
    /\ LET c == Len(calls) + 1
           b == Begin(NewCall(name, sid, 0), built)
       IN /\ Len(b.instances) <= MaxInstances
          /\ calls' = Append(calls, b.call)
          /\ pool' = b.pool
          /\ instances' = b.instances
          /\ history' = b.history
          /\ recorded' = IF b.rec THEN Append(recorded, c) ELSE recorded
    /\ UNCHANGED <<registry, batch, ret, health, wf, flow, http>>

\* process returns a response: before the deadline, or after it when process
\* swallowed the cancellation (wait_for then hands the late result on).
ProcessReturns(c, result) ==
    /\ c \in 1..Len(calls)
    /\ calls[c].pc = "awaiting" /\ calls[c].proc \in {"running", "cancelling"}
    /\ End(c, "returned", result)

\* process raises an Exception: before the deadline, or after it, in reaction to
\* the cancellation.
ProcessRaises(c) ==
    /\ c \in 1..Len(calls)
    /\ calls[c].pc = "awaiting" /\ calls[c].proc \in {"running", "cancelling"}
    /\ End(c, "raised", NoResponse)

\* Deadline as it would be if wait_for raised TimeoutError at once and left the
\* process coroutine running.
DeadlineNoWait(c) ==
    /\ c \in 1..Len(calls)
    /\ calls[c].pc = "awaiting" /\ calls[c].proc = "running"
    /\ LET call == calls[c]
           left == OnTimeout(instances[call.inst], call.sid)
       IN /\ instances' = [instances EXCEPT ![call.inst].status = left.status]
          /\ history' = RecordExecution(history, left.resp)
          /\ recorded' = Append(recorded, c)
          /\ calls' = [calls EXCEPT ![c] = [@ EXCEPT !.pc = "done", !.resp = left.resp,
                                                      !.proc = "cancelling"]]
    /\ UNCHANGED <<registry, pool, batch, ret, health, wf, flow, http>>

\* The deadline of wait_for expires while process has not returned: wait_for
\* cancels the process coroutine and keeps waiting until it has ended.
Deadline(c) ==
    /\ c \in 1..Len(calls)
    /\ calls[c].pc = "awaiting" /\ calls[c].proc = "running"
    /\ calls' = [calls EXCEPT ![c].proc = "cancelling"]
    /\ UNCHANGED <<registry, instances, pool, history, recorded, batch, ret, health, wf, flow, http>>

\* The cancelled process coroutine ends with CancelledError.
ProcessCancelled(c) ==
    /\ c \in 1..Len(calls)
    /\ calls[c].pc = "awaiting" /\ calls[c].proc = "cancelling"
    /\ End(c, "cancelled", NoResponse)

\* GatherResults as it would be if results came in completion order.
GatherResultsByCompletion(first, n) ==
    LET mine == SelectSeq(recorded, LAMBDA c : c >= first /\ c < first + n)
    IN [i \in 1..n |-> calls[mine[i]].resp]

\* GatherResults as it would be if one failed task failed the whole batch (the
\* shape of lines 167-181).
GatherResultsAllOrNothing(first, n) ==
    IF \E i \in 1..n : ~calls[first + i - 1].resp.success
    THEN [i \in 1..n |-> [success |-> FALSE, error |-> "batch_failed",
                          session_id |-> calls[first + i - 1].resp.session_id,
                          agent_name |-> calls[first + i - 1].name]]
    ELSE [i \in 1..n |-> calls[first + i - 1].resp]

\* asyncio.gather(*async_tasks): the results in the order of the awaitables.
GatherResults(first, n) == [i \in 1..n |-> calls[first + i - 1].resp]

\* A task descriptor is <<agent_name, session_id>>; NoKey as its first component
\* is a dict without the key "agent_name".
NoKey == "no_key"

\* The descriptors of tasks on which task["agent_name"] raises KeyError.
LacksName(tasks) == {i \in 1..Len(tasks) : tasks[i][1] = NoKey}

\* AgentManager.execute_parallel(tasks), lines 121-135: one execute_agent
\* coroutine per descriptor, handed to gather.  execute_agent catches every
\* Exception (line 100), so gather yields no Exception and lines 144-153 are
\* not taken.  The loop of lines 127-135 is outside the try of line 138: on a
\* descriptor without "agent_name" line 128 raises KeyError out of
\* execute_parallel, and the coroutines made so far are never awaited.
ExecuteParallel(tasks) ==
    /\ batch.state = "none"
    /\ Len(calls) + Len(tasks) <= MaxCalls
    /\ IF LacksName(tasks) # {}
       THEN /\ batch' = [state |-> "raised", first |-> Len(calls) + 1,
                         n |-> Len(tasks), results |-> <<>>,
                         missing |-> LacksName(tasks)]
            /\ calls' = calls
       ELSE /\ calls' = calls \o [i \in 1..Len(tasks) |->
                                    NewCall(tasks[i][1], tasks[i][2], i)]
            /\ batch' = IF tasks = <<>>
                        THEN [state |-> "done", first |-> Len(calls) + 1, n |-> 0,
                              results |-> <<>>, missing |-> {}]
                        ELSE [state |-> "running", first |-> Len(calls) + 1,
                              n |-> Len(tasks), results |-> <<>>, missing |-> {}]
    /\ UNCHANGED <<registry, instances, pool, history, recorded, ret, health, wf, flow, http>>

\* A task of gather runs its execute_agent up to the first suspension; the event
\* loop starts the tasks in the order gather created them.
TaskStart(c, built) ==
    /\ c \in 1..Len(calls)
    /\ calls[c].pc = "new"
    /\ \A d \in 1..(c - 1) : calls[d].pc # "new"
    /\ LET b == Begin(calls[c], built)
       IN /\ Len(b.instances) <= MaxInstances
          /\ calls' = [calls EXCEPT ![c] = b.call]
          /\ pool' = b.pool
          /\ instances' = b.instances
          /\ history' = b.history
          /\ recorded' = IF b.rec THEN Append(recorded, c) ELSE recorded
    /\ UNCHANGED <<registry, batch, ret, health, wf, flow, http>>

\* Lines 139-165: gather returns once every task has ended; execute_parallel
\* returns the responses.
ParallelReturns ==
    /\ batch.state = "running"
    /\ \A c \in batch.first..(batch.first + batch.n - 1) : calls[c].pc = "done"
    /\ batch' = [batch EXCEPT !.state = "done",
                              !.results = GatherResults(batch.first, batch.n)]
    /\ UNCHANGED <<registry, instances, pool, history, calls, recorded, ret, health, wf, flow, http>>

\* ClearAllAgents as it would be if the instances that are RUNNING were kept.
ClearAllAgentsKeepsRunning ==
    [n \in Names |-> IF n \in ListActiveAgents THEN pool[n] ELSE 0]

\* AgentManager.clear_all_agents(): the pool after it
ClearAllAgents == [n \in Names |-> 0]

\* RemoveAgent as it would be if it ended the executions in flight on the
\* instance it removes.
RemoveAgentCancels(name) ==
    /\ pool' = [pool EXCEPT ![name] = 0]
    /\ ret' = [NoReturn EXCEPT !.op = "remove_agent", !.name = name,
                                !.ok = (pool[name] # 0)]
    /\ calls' = [c \in 1..Len(calls) |->
                    IF calls[c].pc = "awaiting" /\ calls[c].inst = pool[name]
                    THEN [calls[c] EXCEPT !.pc = "done", !.proc = "cancelled"]
                    ELSE calls[c]]
    /\ UNCHANGED <<registry, instances, history, recorded, batch, health, wf, flow, http>>

\* AgentManager.remove_agent(name) (lines 246-254): it has no suspension point.
RemoveAgent(name) ==
    /\ pool' = [pool EXCEPT ![name] = 0]
    /\ ret' = [NoReturn EXCEPT !.op = "remove_agent", !.name = name,
                                !.ok = (pool[name] # 0)]
    /\ UNCHANGED <<registry, instances, history, calls, recorded, batch, health, wf, flow, http>>

\* AgentManager.shutdown(): it logs the RUNNING instances and clears the pool; it
\* has no suspension point.
Shutdown ==
    /\ pool' = ClearAllAgents
    /\ UNCHANGED <<registry, instances, history, calls, recorded, batch, ret, health, wf, flow, http>>

\* What BaseAgent.health_check returns: "healthy" when llm.ainvoke returned,
\* "unhealthy" when it raised; it catches every Exception itself.
ProbeOutcomes == {"healthy", "unhealthy"}

\* The names in the pool
PooledNames == {n \in Names : pool[n] # 0}

\* GetStatistics as it would be if it counted every execution ever recorded.
GetStatisticsOfAllExecutions ==
    LET successful == Cardinality({i \in 1..Len(history) : history[i].success}) IN
    [total_executions |-> Len(recorded),
     successful_executions |-> successful,
     failed_executions |-> Len(recorded) - successful,
     agents_count |-> Cardinality(PooledNames),
     active_agents |-> Cardinality(ListActiveAgents),
     registered_agents |-> Cardinality(ListAgents)]

\* get_statistics() (lines 298-327) without its time averages and rates; the
\* branch for an empty history returns the same counts.  The call assigns to
\* nothing.
GetStatistics ==
    LET total == Len(history)
        successful == Cardinality({i \in 1..Len(history) : history[i].success})
    IN [total_executions |-> total,
        successful_executions |-> successful,
        failed_executions |-> total - successful,
        agents_count |-> Cardinality(PooledNames),
        active_agents |-> Cardinality(ListActiveAgents),
        registered_agents |-> Cardinality(ListAgents)]

\* The orders in which a loop can visit the keys of a dict with key set S (the
\* pool model does not keep the insertion order).
Orders(S) ==
    {o \in [1..Cardinality(S) -> S] : \A i, j \in 1..Cardinality(S) : o[i] = o[j] => i = j}

\* Lines 238-243: the overall_status of the collected results.
OverallStatus(results, keys) ==
    IF \A i \in 1..Len(keys) : results[keys[i]] = "healthy" THEN "healthy" ELSE "degraded"

\* AgentManager.health_check(agent_name) up to its first await.
HealthCheck(arg, order) ==
    /\ health.state = "none"
    /\ health' =
         IF arg # NoName
         THEN IF pool[arg] = 0
              THEN [NoHealthCheck EXCEPT !.state = "done", !.arg = arg,
                                         !.status = "not_found"]
              ELSE [NoHealthCheck EXCEPT !.state = "probing", !.arg = arg,
                                         !.keys = <<arg>>]
         ELSE IF order = <<>>
              THEN [NoHealthCheck EXCEPT !.state = "done",
                                         !.overall = OverallStatus(health.results, <<>>)]
              ELSE [NoHealthCheck EXCEPT !.state = "probing", !.keys = order]
    /\ UNCHANGED <<registry, instances, pool, history, calls, recorded, batch, ret, wf, flow, http>>

\* The number of probes that have returned
Probed(h) == Cardinality({n \in Names : h.results[n] # ""})

\* AfterProbe as it would be if the loop stopped at the first probe that is not
\* healthy.
AfterProbeStopsAtFailure(h, outcome) ==
    LET results == [h.results EXCEPT ![h.keys[Probed(h) + 1]] = outcome] IN
    IF h.arg # NoName
    THEN [h EXCEPT !.state = "done", !.results = results, !.status = outcome]
    ELSE IF Probed(h) + 1 < Len(h.keys) /\ outcome = "healthy"
    THEN [h EXCEPT !.results = results]
    ELSE [h EXCEPT !.state = "done", !.results = results,
                   !.overall = IF outcome = "healthy" THEN "healthy" ELSE "degraded"]

\* The probe of the current instance returns outcome: with a name, health_check
\* returns it (line 224); without, the loop stores it and asks the iterator of
\* self._instances.items() for the next instance (line 228): the iterator
\* raises RuntimeError, outside the try of the loop body, when the dict has not
\* the size it had when the loop began; otherwise the loop goes on or, after
\* the last instance, returns the aggregate (lines 228-243).  A pool that was
\* changed and has its old size again is taken as unchanged.
AfterProbe(h, outcome) ==
    LET results == [h.results EXCEPT ![h.keys[Probed(h) + 1]] = outcome] IN
    IF h.arg # NoName
    THEN [h EXCEPT !.state = "done", !.results = results, !.status = outcome]
    ELSE IF Cardinality(PooledNames) # Len(h.keys)
    THEN [h EXCEPT !.state = "raised", !.results = results]
    ELSE IF Probed(h) + 1 < Len(h.keys)
    THEN [h EXCEPT !.results = results]
    ELSE [h EXCEPT !.state = "done", !.results = results,
                   !.overall = OverallStatus(results, h.keys)]

\* await agent.health_check() returns.
ProbeReturns(outcome) ==
    /\ health.state = "probing"
    /\ health' = AfterProbe(health, outcome)
    /\ UNCHANGED <<registry, instances, pool, history, calls, recorded, batch, ret, wf, flow, http>>

Descriptors == Names \X (Sids \cup {NoSid})
TaskLists == UNION { [1..n -> Descriptors] : n \in 0..MaxTasks }

\* Direct calls of the manager, one after the other or overlapping.
Next ==
    \/ \E n \in Names : RegisterAgent(n)
    \/ \E i \in 1..MaxInstances : SetEnabled(i, FALSE)
    \/ \E n \in Names, k \in FactoryKinds : CreateAgent(n, NoOverride, TRUE, k)
    \/ \E n \in Names, k \in FactoryKinds : ExecuteAgent(n, NoSid, k)
    \/ \E c \in 1..MaxCalls, r \in ResultsWithError : ProcessReturns(c, r)
    \/ \E c \in 1..MaxCalls : ProcessRaises(c)
    \/ \E c \in 1..MaxCalls : Deadline(c)
    \/ \E c \in 1..MaxCalls : ProcessCancelled(c)

Spec == Init /\ [][Next]_vars

\* No two executions overlap on one instance.
NoOverlap ==
    \A c, d \in 1..Len(calls) :
        (c # d /\ calls[c].pc = "awaiting" /\ calls[d].pc = "awaiting")
            => calls[c].inst # calls[d].inst

NextSeq ==
    \/ \E n \in Names : RegisterAgent(n)
    \/ \E i \in 1..MaxInstances : SetEnabled(i, FALSE)
    \/ \E n \in Names, k \in FactoryKinds : CreateAgent(n, NoOverride, TRUE, k)
    \/ \E n \in Names, k \in FactoryKinds : ExecuteAgent(n, NoSid, k) /\ NoOverlap'
    \/ \E c \in 1..MaxCalls, r \in ResultsWithError : ProcessReturns(c, r)
    \/ \E c \in 1..MaxCalls : ProcessRaises(c)
    \/ \E c \in 1..MaxCalls : Deadline(c)
    \/ \E c \in 1..MaxCalls : ProcessCancelled(c)

SpecSeq == Init /\ [][NextSeq]_vars

\* One execute_parallel batch.
NextParallel ==
    \/ \E n \in Names : RegisterAgent(n)
    \/ \E i \in 1..MaxInstances : SetEnabled(i, FALSE)
    \/ \E t \in TaskLists : ExecuteParallel(t)
    \/ \E c \in 1..MaxCalls, k \in FactoryKinds : TaskStart(c, k)
    \/ \E c \in 1..MaxCalls, r \in ResultsWithError : ProcessReturns(c, r)
    \/ \E c \in 1..MaxCalls : ProcessRaises(c)
    \/ \E c \in 1..MaxCalls : Deadline(c)
    \/ \E c \in 1..MaxCalls : ProcessCancelled(c)
    \/ ParallelReturns

SpecParallel == Init /\ [][NextParallel]_vars

\* Task lists whose descriptors may lack "agent_name".
AnyDescriptors == (Names \cup {NoKey}) \X (Sids \cup {NoSid})
AnyTaskLists == UNION { [1..n -> AnyDescriptors] : n \in 0..MaxTasks }

\* One execute_parallel batch over any task list, after direct executions.
NextDescriptors ==
    \/ \E n \in Names : RegisterAgent(n)
    \/ \E n \in Names, k \in FactoryKinds :
          Len(calls) < MaxRaceCalls /\ batch.state = "none" /\ ExecuteAgent(n, NoSid, k)
    \/ \E t \in AnyTaskLists : ExecuteParallel(t)
    \/ \E c \in 1..MaxCalls, k \in FactoryKinds : TaskStart(c, k)
    \/ \E c \in 1..MaxCalls, r \in ResultsWithError : ProcessReturns(c, r)
    \/ \E c \in 1..MaxCalls : Deadline(c)
    \/ \E c \in 1..MaxCalls : ProcessCancelled(c)
    \/ ParallelReturns

SpecDescriptors == Init /\ [][NextDescriptors]_vars

\* The pool under create_agent with and without reuse and under shutdown, while
\* executions are in flight.
NextPool ==
    \/ \E n \in Names : RegisterAgent(n)
    \/ \E n \in Names, r \in BOOLEAN, k \in FactoryKinds : CreateAgent(n, NoOverride, r, k)
    \/ Shutdown
    \/ \E n \in Names, k \in FactoryKinds :
          Len(calls) < MaxPoolCalls /\ ExecuteAgent(n, NoSid, k)
    \/ \E c \in 1..MaxCalls, r \in ProcessResults : ProcessReturns(c, r)
    \/ \E c \in 1..MaxCalls : ProcessRaises(c)
    \/ \E c \in 1..MaxCalls : Deadline(c)
    \/ \E c \in 1..MaxCalls : ProcessCancelled(c)

SpecPool == Init /\ [][NextPool]_vars

\* The agent classes of the repository.
AgentClasses == {"TableManagementAgent", "ETLDevelopmentAgent"}

\* The factories callers register.
Factories == {SimpleAgentFactory(c) : c \in AgentClasses}

\* A config with every field set, as register_table_agent builds one.
FullConfig(name) ==
    AgentConfig(ConfigFields,
                [name |-> name, version |-> "3.0.0", description |-> "registered",
                 timeout |-> 60, max_retries |-> 5, enabled |-> FALSE])

\* The config argument of register: None, a full config of that name, or
\* AgentConfig(name=m) for another name m.
ConfigArgs(name) ==
    {<<>>, <<FullConfig(name)>>} \cup {<<DefaultConfig(m)>> : m \in Names \ {name}}

\* The metadata argument of register: None, {} or a non-empty dict.
MetadataArgs == {"none", "empty", "m1"}

\* The values a caller puts into an override of the config of name.
OverrideValues(name) ==
    [name |-> name, version |-> "2.0.0", description |-> "override",
     timeout |-> 10, max_retries |-> 1, enabled |-> FALSE]

\* The subsets of fields a caller sets besides name: none, one, or all.
GivenSets ==
    {{}, ConfigFields \ {"name"}} \cup {{f} : f \in ConfigFields \ {"name"}}

\* The overrides: AgentConfig(name=name, ...) with the fields of a given set.
Overrides(name) ==
    { [given |-> g \cup {"name"},
       config |-> <<AgentConfig(g \cup {"name"}, OverrideValues(name))>>] :
         g \in GivenSets }

\* The registry on its own: registrations, removals and direct create_agent
\* calls in any order.
NextRegistry ==
    \/ \E n \in Names, f \in Factories, m \in MetadataArgs :
          \E c \in ConfigArgs(n) : Register(n, f, c, m)
    \/ \E n \in Names, a \in AgentClasses, m \in MetadataArgs :
          \E c \in ConfigArgs(n) : RegisterClass(n, a, c, m)
    \/ \E n \in Names : Unregister(n)
    \/ Clear
    \/ \E n \in Names, k \in FactoryKinds :
          \E o \in Overrides(n) \cup {NoOverride} : RegistryCreate(n, o, k)

SpecRegistry == Init /\ [][NextRegistry]_vars

\* One health_check while executions are in flight; the pool does not change
\* while a probe is awaited.
NextHealth ==
    \/ \E n \in Names : RegisterAgent(n)
    \/ \E n \in Names, k \in FactoryKinds :
          /\ Len(calls) < MaxPoolCalls
          /\ health.state = "probing" => pool[n] # 0
          /\ ExecuteAgent(n, NoSid, k)
    \/ \E c \in 1..MaxCalls, r \in ProcessResults : ProcessReturns(c, r)
    \/ \E c \in 1..MaxCalls : Deadline(c)
    \/ \E c \in 1..MaxCalls : ProcessCancelled(c)
    \/ \E a \in Names \cup {NoName} : \E o \in Orders(PooledNames) : HealthCheck(a, o)
    \/ \E o \in ProbeOutcomes : ProbeReturns(o)

SpecHealth == Init /\ [][NextHealth]_vars

\* One health_check while the other operations of the manager run: executions
\* that pool a new instance, create_agent, remove_agent and shutdown (which
\* clears the pool as clear_all_agents does).
NextHealthRace ==
    \/ \E n \in Names : RegisterAgent(n)
    \/ \E n \in Names, k \in FactoryKinds :
          Len(calls) < MaxRaceCalls /\ ExecuteAgent(n, NoSid, k)
    \/ \E n \in Names, r \in BOOLEAN, k \in FactoryKinds : CreateAgent(n, NoOverride, r, k)
    \/ \E n \in Names : RemoveAgent(n)
    \/ Shutdown
    \/ \E c \in 1..MaxCalls, r \in ResultsWithError : ProcessReturns(c, r)
    \/ \E c \in 1..MaxCalls : Deadline(c)
    \/ \E c \in 1..MaxCalls : ProcessCancelled(c)
    \/ \E a \in Names \cup {NoName} : \E o \in Orders(PooledNames) : HealthCheck(a, o)
    \/ \E o \in ProbeOutcomes : ProbeReturns(o)

SpecHealthRace == Init /\ [][NextHealthRace]_vars

\* register with a config that sets every field, for a name not registered now
RegisterFull(n) ==
    /\ ~IsRegistered(n)
    /\ Register(n, SimpleAgentFactory(n), <<FullConfig(n)>>, "m1")

\* The config arguments of execute_agent: None, or an override of every field.
ConfigChoices(n) ==
    {NoOverride,
     [given |-> ConfigFields, config |-> <<AgentConfig(ConfigFields, OverrideValues(n))>>]}

\* Executions with and without a config argument while names are unregistered
\* and registered again and instances are removed from the pool.
NextLifecycle ==
    \/ \E n \in Names : RegisterAgent(n)
    \/ \E n \in Names : RegisterFull(n)
    \/ \E n \in Names : Unregister(n)
    \/ \E n \in Names, k \in FactoryKinds :
          \E o \in ConfigChoices(n) :
             Len(calls) < MaxPoolCalls /\ ExecuteAgentConfigured(n, o, k)
    \/ \E n \in Names : RemoveAgent(n)
    \/ Shutdown
    \/ \E c \in 1..MaxCalls, r \in ResultsWithError : ProcessReturns(c, r)
    \/ \E c \in 1..MaxCalls : Deadline(c)
    \/ \E c \in 1..MaxCalls : ProcessCancelled(c)

SpecLifecycle == Init /\ [][NextLifecycle]_vars

\* register of a name not registered now, with any config argument
RegisterAnyConfig(n, config) ==
    /\ ~IsRegistered(n)
    /\ Register(n, SimpleAgentFactory(n), config, "m1")

\* Executions of agents registered with and without a config.
NextNames ==
    \/ \E n \in Names : \E c \in ConfigArgs(n) : RegisterAnyConfig(n, c)
    \/ \E n \in Names, k \in FactoryKinds :
          Len(calls) < MaxPoolCalls /\ ExecuteAgent(n, NoSid, k)
    \/ \E c \in 1..MaxCalls, r \in ResultsWithError : ProcessReturns(c, r)
    \/ \E c \in 1..MaxCalls : ProcessRaises(c)
    \/ \E c \in 1..MaxCalls : Deadline(c)
    \/ \E c \in 1..MaxCalls : ProcessCancelled(c)

SpecNames == Init /\ [][NextNames]_vars

\* ------------------------------------------------------- workflow graphs
\* langgraph's markers of the entry and the exit of a graph
START == "__start__"
END == "__end__"

\* The concrete agents whose process runs a compiled StateGraph.
WorkflowClasses == {"ETLDevelopmentAgent", "MetricManagementAgent", "TableManagementAgent"}

\* _create_workflow: the add_node calls, in the order they are made
Nodes(class) ==
    CASE class = "ETLDevelopmentAgent" -> <<"parse_request", "query_etl", "generate_etl">>
      [] class = "MetricManagementAgent" ->
            <<"analyze_request", "query_metric", "execute_operation">>
      [] class = "TableManagementAgent" ->
            <<"analyze_request", "query_table", "execute_operation">>

\* _create_workflow: the add_edge calls
Edges(class) ==
    CASE class = "ETLDevelopmentAgent" ->
            {<<START, "parse_request">>, <<"parse_request", "query_etl">>,
             <<"query_etl", "generate_etl">>, <<"generate_etl", END>>}
      [] class = "MetricManagementAgent" ->
            {<<START, "analyze_request">>, <<"analyze_request", "query_metric">>,
             <<"query_metric", "execute_operation">>, <<"execute_operation", END>>}
      [] class = "TableManagementAgent" ->
            {<<START, "analyze_request">>, <<"analyze_request", "query_table">>,
             <<"query_table", "execute_operation">>, <<"execute_operation", END>>}

\* NextNode as it would be if the engine skipped the node an edge leads to.
NextNodeSkipsOne(edges, node) ==
    LET m == CHOOSE x \in {e[2] : e \in edges} : <<node, x>> \in edges
    IN IF m = END THEN END
       ELSE CHOOSE x \in {e[2] : e \in edges} : <<m, x>> \in edges

\* The compiled graph: the node the edge out of node leads to.
NextNode(edges, node) ==
    CHOOSE m \in {e[2] : e \in edges} : <<node, m>> \in edges

\* The class of the instances the registry builds under a name.
ClassOf(name) == GetFactory(name)[1].agent_class

\* The graph is running and its caller is still waiting for it.
RunActive ==
    /\ wf.state = "running"
    /\ wf.mode = "invoke" => calls[wf.call].pc = "awaiting"

\* A run from its initial state
NewRun(kind, c, mode, chunks) ==
    [kind |-> kind, call |-> c, mode |-> mode, state |-> "running",
     at |-> NextNode(Edges(kind), START), trace |-> <<>>, value |-> <<>>,
     success |-> FALSE, chunks |-> chunks]

\* process of a concrete agent begins: graph.ainvoke(initial_state)
WorkflowStart(c) ==
    /\ c \in 1..Len(calls)
    /\ calls[c].pc = "awaiting" /\ calls[c].proc = "running"
    /\ wf.mode = "invoke" => wf.call # c
    /\ ~RunActive
    /\ ClassOf(calls[c].name) \in WorkflowClasses
    /\ wf' = NewRun(ClassOf(calls[c].name), c, "invoke", <<>>)
    /\ UNCHANGED <<registry, instances, pool, history, calls, recorded, batch, ret,
                   health, flow, http>>

\* The run can take a step: an invoked run only while its process coroutine has
\* not been cancelled.
CanStep ==
    /\ RunActive
    /\ wf.at # END
    /\ wf.mode = "invoke" => calls[wf.call].proc = "running"

\* The run after its current node returned the state with the success flag set
\* to flag: the engine moves along the edge, and a streamed run yields the
\* node's chunk.
AfterNode(w, flag) ==
    LET next == NextNode(Edges(w.kind), w.at) IN
    [w EXCEPT !.trace = Append(@, [node |-> w.at, input |-> w.value]),
              !.value = Append(@, w.at),
              !.at = next,
              !.success = flag,
              !.state = IF next = END /\ w.mode = "invoke" THEN "done" ELSE "running",
              !.chunks = IF w.mode = "stream" THEN Append(@, w.at) ELSE @]

\* The current node returns.
NodeReturns(flag) ==
    /\ CanStep
    /\ wf' = AfterNode(wf, flag)
    /\ UNCHANGED <<registry, instances, pool, history, calls, recorded, batch, ret,
                   health, flow, http>>

\* OnRunError as it would be if process_stream went on to its final chunk after
\* the error chunk.
OnRunErrorThenCompleted(w) ==
    [w EXCEPT !.trace = Append(@, [node |-> w.at, input |-> w.value]),
              !.state = "raised",
              !.chunks = IF w.mode = "stream" THEN @ \o <<"error", "completed">> ELSE @]

\* The run after its current node raised an Exception: ainvoke raises it to
\* process; process_stream yields the error chunk and ends.
OnRunError(w) ==
    [w EXCEPT !.trace = Append(@, [node |-> w.at, input |-> w.value]),
              !.state = "raised",
              !.chunks = IF w.mode = "stream" THEN Append(@, "error") ELSE @]

\* The current node raises.
NodeRaises ==
    /\ CanStep
    /\ wf' = OnRunError(wf)
    /\ UNCHANGED <<registry, instances, pool, history, calls, recorded, batch, ret,
                   health, flow, http>>

\* ProcessResult as it would be if the except branch of process built its
\* response without the error text.
ProcessResultDropsError(w) ==
    [success |-> w.state = "done" /\ w.success, error |-> "",
     session_id |-> "", agent_name |-> ""]

\* The AgentResponse process builds from a run that ended: from the final state
\* when ainvoke returned (the ETL and table agents give a failure an error text,
\* the metric agent gives it none), from the exception when ainvoke raised.
ProcessResult(w) ==
    [success |-> w.state = "done" /\ w.success,
     error |-> IF w.state = "raised" THEN "process_error"
               ELSE IF w.success \/ w.kind = "MetricManagementAgent" THEN ""
               ELSE "process_error",
     session_id |-> "", agent_name |-> ""]

\* ProcessFinishes as it would be if process let the exception of a run pass.
ProcessFinishesReraises(c) ==
    /\ wf.mode = "invoke" /\ wf.call = c
    /\ wf.state \in {"done", "raised"}
    /\ c \in 1..Len(calls) /\ calls[c].proc = "running"
    /\ IF wf.state = "raised" THEN ProcessRaises(c)
       ELSE ProcessReturns(c, ProcessResult(wf))

\* process returns after ainvoke returned or raised: the except branch turns the
\* exception into a failure response.
ProcessFinishes(c) ==
    /\ wf.mode = "invoke" /\ wf.call = c
    /\ wf.state \in {"done", "raised"}
    /\ c \in 1..Len(calls) /\ calls[c].proc = "running"
    /\ ProcessReturns(c, ProcessResult(wf))

\* MetricManagementAgent.process_stream is called on a pooled instance and
\* yields its first chunk.
StreamStart(n) ==
    /\ pool[n] # 0
    /\ ClassOf(n) = "MetricManagementAgent"
    /\ ~RunActive
    /\ wf' = NewRun("MetricManagementAgent", 0, "stream", <<"starting">>)
    /\ UNCHANGED <<registry, instances, pool, history, calls, recorded, batch, ret,
                   health, flow, http>>

\* astream is exhausted: process_stream yields its final chunk and ends.
StreamCompletes ==
    /\ wf.mode = "stream" /\ wf.state = "running" /\ wf.at = END
    /\ wf' = [wf EXCEPT !.state = "done", !.chunks = Append(@, "completed")]
    /\ UNCHANGED <<registry, instances, pool, history, calls, recorded, batch, ret,
                   health, flow, http>>

\* register_agent of a concrete agent class under a name
RegisterWorkflowAgent(n, class) ==
    /\ ~IsRegistered(n)
    /\ Register(n, SimpleAgentFactory(class), <<DefaultConfig(n)>>, "m1")

\* Executions of the concrete agents, one at a time, and streamed runs of the
\* metric agent.
NextWorkflow ==
    \/ \E n \in Names, class \in WorkflowClasses : RegisterWorkflowAgent(n, class)
    \/ \E n \in Names, k \in FactoryKinds :
          /\ Len(calls) < MaxPoolCalls
          /\ \A d \in 1..Len(calls) : calls[d].pc = "done"
          /\ ~RunActive
          /\ ExecuteAgent(n, NoSid, k)
    \/ \E c \in 1..MaxCalls : WorkflowStart(c)
    \/ \E flag \in BOOLEAN : NodeReturns(flag)
    \/ NodeRaises
    \/ \E c \in 1..MaxCalls : ProcessFinishes(c)
    \/ \E c \in 1..MaxCalls : Deadline(c)
    \/ \E c \in 1..MaxCalls : ProcessCancelled(c)
    \/ \E n \in Names : StreamStart(n)
    \/ StreamCompletes

SpecWorkflow == Init /\ [][NextWorkflow]_vars

\* The current node of a run ends, by returning or by raising.
NodeEnds == (\E flag \in BOOLEAN : NodeReturns(flag)) \/ NodeRaises

\* A node that can end does end: the calls it awaits return or raise.
SpecWorkflowFair == SpecWorkflow /\ WF_vars(NodeEnds)

\* The other named parameters callers pass: none, or a table name.
Extras == {NoExtra, "table_name=user_table"}

\* Executions with and without a session id and other named parameters.
NextKwargs ==
    \/ \E n \in Names : RegisterAgent(n)
    \/ \E i \in 1..MaxInstances : SetEnabled(i, FALSE)
    \/ \E n \in Names, sid \in Sids \cup {NoSid}, x \in Extras, k \in FactoryKinds :
          Len(calls) < MaxPoolCalls /\ ExecuteAgentWith(n, sid, x, k)
    \/ \E c \in 1..MaxCalls, r \in ResultsWithError : ProcessReturns(c, r)
    \/ \E c \in 1..MaxCalls : ProcessRaises(c)
    \/ \E c \in 1..MaxCalls : Deadline(c)
    \/ \E c \in 1..MaxCalls : ProcessCancelled(c)

SpecKwargs == Init /\ [][NextKwargs]_vars

\* The max_retries values agents are registered with: no retry, one, the default.
RetryValues == {0, 1, DefaultMaxRetries}

\* register_agent with a config that sets max_retries
RegisterWithRetries(n, m) ==
    /\ ~IsRegistered(n)
    /\ Register(n, SimpleAgentFactory(n),
                <<AgentConfig({"name", "max_retries"}, [name |-> n, max_retries |-> m])>>,
                "m1")

\* Executions on agents whose configs differ in max_retries.
NextRetries ==
    \/ \E n \in Names, m \in RetryValues : RegisterWithRetries(n, m)
    \/ \E n \in Names, k \in FactoryKinds : ExecuteAgent(n, NoSid, k)
    \/ \E c \in 1..MaxCalls, r \in ResultsWithError : ProcessReturns(c, r)
    \/ \E c \in 1..MaxCalls : ProcessRaises(c)
    \/ \E c \in 1..MaxCalls : Deadline(c)
    \/ \E c \in 1..MaxCalls : ProcessCancelled(c)

SpecRetries == Init /\ [][NextRetries]_vars

\* ----------------------------------------------------------------- claims
\* Call c leaves "new" in this step: its execute_agent runs up to the await.
Starts(c) ==
    /\ c \in 1..Len(calls')
    /\ calls'[c].pc # "new"
    /\ (c > Len(calls) \/ calls[c].pc = "new")

\* Call c returns to its caller in this step.
Ends(c) ==
    /\ c \in 1..Len(calls')
    /\ calls'[c].pc = "done"
    /\ (c > Len(calls) \/ calls[c].pc # "done")

Min(x, y) == IF x < y THEN x ELSE y

\* Every record ever appended, in append order.
FullLog ==
    [k \in 1..Len(recorded) |->
        [agent_name |-> calls[recorded[k]].resp.agent_name,
         session_id |-> calls[recorded[k]].resp.session_id,
         success |-> calls[recorded[k]].resp.success,
         error |-> calls[recorded[k]].resp.error]]

AllowedChange(old, new) ==
    \/ old = "idle" /\ new = "running"
    \/ old = "running" /\ new \in Terminal
    \/ old \in Terminal /\ new = "running"

\* C1: without overlapping executions on an instance, an instance starts idle (or
\* already running, when execute_agent built it), every status change is
\* idle->running, running->terminal or terminal->running, and once an enabled
\* call has returned with no other in flight the status is terminal.
C1_StatusMachine ==
    /\ [][ /\ \A i \in 1..Len(instances) :
                instances'[i].status # instances[i].status
                    => AllowedChange(instances[i].status, instances'[i].status)
           /\ \A i \in (Len(instances) + 1)..Len(instances') :
                instances'[i].status \in {"idle", "running"}
           /\ \A c \in 1..Len(calls) :
                (calls[c].pc = "awaiting" /\ calls'[c].pc = "done")
                    => instances'[calls[c].inst].status \in Terminal ]_vars
    /\ [](\A c \in 1..Len(calls) :
            (calls[c].pc = "done" /\ calls[c].proc # "none"
             /\ \A d \in 1..Len(calls) :
                    calls[d].inst = calls[c].inst => calls[d].pc # "awaiting")
                => instances[calls[c].inst].status \in Terminal)

\* C1 witness: a second execution runs on an instance whose first one has ended.
C1_Witness ==
    \E c, d \in 1..Len(calls) :
        /\ calls[c].pc = "done" /\ calls[c].proc = "returned"
        /\ calls[d].pc = "awaiting" /\ calls[d].inst = calls[c].inst
        /\ instances[calls[d].inst].status = "running"

\* C2: a call whose deadline expired before process returned ends with
\* success=false, the timeout error and status timeout, whatever process does
\* after the deadline.
C2_TimeoutWhateverProcessDoes ==
    [][ \A c \in 1..Len(calls) :
            (calls[c].proc = "cancelling" /\ calls'[c].pc = "done")
                => /\ calls'[c].resp.success = FALSE
                   /\ calls'[c].resp.error = "timeout"
                   /\ instances'[calls[c].inst].status = "timeout" ]_vars

C4_DisabledLeavesStatus ==
    [][ \A c \in 1..Len(calls') :
            (Starts(c) /\ pool[calls'[c].name] # 0
             /\ ~instances[pool[calls'[c].name]].enabled)
                => /\ calls'[c].pc = "done"
                   /\ calls'[c].resp.success = FALSE
                   /\ calls'[c].resp.error = "disabled"
                   /\ calls'[c].proc = "none"
                   /\ instances'[pool[calls'[c].name]].status
                        = instances[pool[calls'[c].name]].status ]_vars

\* C4 witness: a disabled call has returned on an instance that keeps the
\* terminal status of an earlier execution.
C4_Witness ==
    \E c \in 1..Len(calls) :
        /\ calls[c].pc = "done" /\ calls[c].resp.error = "disabled"
        /\ instances[calls[c].inst].status \in Terminal

C6_ResultInTime ==
    [][ \A c \in 1..Len(calls) :
            (calls[c].proc = "running" /\ calls'[c].proc = "returned")
                => /\ calls'[c].pc = "done"
                   /\ \E r \in ProcessResults :
                        /\ calls'[c].resp.success = r.success
                        /\ calls'[c].resp.error = r.error
                   /\ calls'[c].resp.agent_name = instances[calls[c].inst].name
                   /\ calls'[c].resp.session_id # ""
                   /\ (calls[c].sid # NoSid => calls'[c].resp.session_id = calls[c].sid)
                   /\ (instances'[calls[c].inst].status = "completed")
                        <=> calls'[c].resp.success
                   /\ (instances'[calls[c].inst].status = "failed")
                        <=> ~calls'[c].resp.success ]_vars

\* C6 witness: one call returned a success and another a failure from process.
C6_Witness ==
    \E c, d \in 1..Len(calls) :
        /\ calls[c].pc = "done" /\ calls[c].proc = "returned" /\ calls[c].resp.success
        /\ calls[d].pc = "done" /\ calls[d].proc = "returned" /\ ~calls[d].resp.success
        /\ calls[d].resp.error = "process_error"

\* C7: every started call of execute_agent either waits for process or has
\* returned a response; a call that got no instance (unknown name, factory
\* raised or returned None) returned success=false with an error, invoked no
\* process and left the pool and the heap as they were; an unknown name that is
\* not pooled gets no instance.
C7_CreationFailure ==
    [][ \A c \in 1..Len(calls') :
            Starts(c)
                => /\ calls'[c].pc \in {"awaiting", "done"}
                   /\ (calls'[c].inst = 0
                        => /\ calls'[c].pc = "done"
                           /\ calls'[c].resp.success = FALSE
                           /\ calls'[c].resp.error = "create_failed"
                           /\ calls'[c].resp.agent_name = calls'[c].name
                           /\ calls'[c].proc = "none"
                           /\ pool' = pool
                           /\ instances' = instances)
                   /\ ((~IsRegistered(calls'[c].name) /\ pool[calls'[c].name] = 0)
                        => calls'[c].inst = 0) ]_vars

\* C7 witness: a call on a registered name returned the creation failure (its
\* factory raised or returned None) and the name is not pooled.
C7_Witness ==
    \E c \in 1..Len(calls) :
        /\ calls[c].pc = "done" /\ calls[c].resp.error = "create_failed"
        /\ IsRegistered(calls[c].name) /\ pool[calls[c].name] = 0

\* C8: a step in which a call of execute_agent returns appends exactly the
\* record of its response to the history (cut to the cap), no other step changes
\* the history, and when execute_parallel has returned each of its N tasks has
\* appended one record.
C8_OneRecordPerCall ==
    /\ [][ /\ (\A c \in 1..Len(calls') : ~Ends(c)) => history' = history
           /\ \A c \in 1..Len(calls') :
                Ends(c)
                    => /\ Len(history') = Min(Len(history) + 1, MaxHistory)
                       /\ history'[Len(history')].agent_name = calls'[c].resp.agent_name
                       /\ history'[Len(history')].session_id = calls'[c].resp.session_id
                       /\ history'[Len(history')].success = calls'[c].resp.success
                       /\ history'[Len(history')].error = calls'[c].resp.error
                       /\ \A j \in 1..(Len(history') - 1) :
                            history'[j] = history[Len(history) - (Len(history') - 1) + j]
           /\ \A c, d \in 1..Len(calls') : (Ends(c) /\ Ends(d)) => c = d ]_vars
    /\ [](batch.state = "done"
            => \A c \in batch.first..(batch.first + batch.n - 1) :
                /\ calls[c].pc = "done"
                /\ Cardinality({k \in 1..Len(recorded) : recorded[k] = c}) = 1)

\* C8 witness: execute_parallel returned from two tasks, one of which got no
\* instance and one of which ran into its deadline.
C8_Witness ==
    /\ batch.state = "done" /\ batch.n = 2
    /\ \E c, d \in batch.first..(batch.first + batch.n - 1) :
        /\ calls[c].resp.error = "create_failed"
        /\ calls[d].resp.error = "timeout"

\* C9: the history holds at most MaxHistory records, and they are the most
\* recently appended ones in append order.
C9_HistoryBounded ==
    /\ Len(history) = Min(Len(recorded), MaxHistory)
    /\ \A j \in 1..Len(history) :
        history[j] = FullLog[Len(recorded) - Len(history) + j]

\* C9 witness: after MaxHistory + 1 insertions the oldest record is gone and the
\* newest is the last of the history.
C9_Witness ==
    /\ Len(recorded) = MaxHistory + 1
    /\ \A j \in 1..Len(history) : history[j] # FullLog[1]
    /\ history[Len(history)] = FullLog[Len(recorded)]

\* C10: execute_parallel returns len(tasks) responses and response i is the
\* response of task i, in whatever order the tasks ended.
C10_ParallelOrder ==
    batch.state = "done"
        => /\ Len(batch.results) = batch.n
           /\ \A i \in 1..batch.n :
                /\ batch.results[i] = calls[batch.first + i - 1].resp
                /\ batch.results[i].agent_name = calls[batch.first + i - 1].name
                /\ (calls[batch.first + i - 1].sid # NoSid
                        => batch.results[i].session_id = calls[batch.first + i - 1].sid)

\* C10 witness: execute_parallel returned two different responses whose tasks
\* ended in the reverse of the input order.
C10_Witness ==
    /\ batch.state = "done" /\ batch.n = 2
    /\ batch.results[1] # batch.results[2]
    /\ recorded = <<batch.first + 1, batch.first>>

\* The error text the execution of call c accounts for by itself: how its own
\* instance was obtained and how its own process ended.
OwnError(c) ==
    CASE calls[c].inst = 0 -> "create_failed"
      [] calls[c].inst # 0 /\ calls[c].proc = "none" -> "disabled"
      [] calls[c].inst # 0 /\ calls[c].proc = "cancelled" -> "timeout"
      [] calls[c].inst # 0 /\ calls[c].proc = "raised" -> "exception"
      [] OTHER -> "process_error"

\* C11: in execute_parallel a task that fails, times out, raises or gets no
\* instance yields success=false in its own slot and nowhere else: the batch
\* returns only when every task has ended, every slot holds the outcome of its
\* own task (a success when its process returned one, whatever the siblings
\* did), and the end of one task changes no sibling's call.
C11_FailureStaysInSlot ==
    /\ [](batch.state = "done"
            => \A i \in 1..batch.n :
                 LET c == batch.first + i - 1
                     r == batch.results[i]
                 IN /\ calls[c].pc = "done"
                    /\ r.agent_name = calls[c].name
                    /\ r.success <=> (calls[c].proc = "returned" /\ calls[c].resp.success)
                    /\ ~r.success => r.error = OwnError(c))
    /\ [][\A c \in 1..Len(calls) :
            Ends(c) => \A d \in 1..Len(calls) : d # c => calls'[d] = calls[d]]_vars

\* C11 witness: a batch of two tasks on two agents has returned; the first task
\* timed out, the second one succeeded.
C11_Witness ==
    /\ batch.state = "done" /\ batch.n = 2
    /\ calls[batch.first].name # calls[batch.first + 1].name
    /\ ~batch.results[1].success /\ batch.results[1].error = "timeout"
    /\ batch.results[2].success

\* The status the end of call c writes: the outcome of its execution.
OutcomeStatus(call) ==
    CASE call.proc = "cancelled" -> "timeout"
      [] call.proc = "raised" -> "failed"
      [] OTHER -> IF call.resp.success THEN "completed" ELSE "failed"

\* The calls that ran process on instance i and have returned.
FinishedOn(i) ==
    {c \in 1..Len(calls) : calls[c].inst = i /\ calls[c].pc = "done" /\ calls[c].proc # "none"}

\* The calls still awaiting process on instance i.
InFlightOn(i) == {c \in 1..Len(calls) : calls[c].inst = i /\ calls[c].pc = "awaiting"}

\* The position of call c in the order in which the calls returned.
ReturnOrder(c) == CHOOSE k \in 1..Len(recorded) : recorded[k] = c

\* C12: executions that overlap on one instance write its status with
\* last-writer-wins: every execution that ends writes its own outcome, whether
\* or not another execution is still in flight, so once none is in flight the
\* status is the outcome of the execution that returned last.
C12_LastWriterWins ==
    /\ [][\A c \in 1..Len(calls) :
            (Ends(c) /\ calls'[c].proc # "none")
                => instances'[calls'[c].inst].status = OutcomeStatus(calls'[c])]_vars
    /\ [](\A i \in 1..Len(instances) :
            (InFlightOn(i) = {} /\ FinishedOn(i) # {})
                => LET last == CHOOSE c \in FinishedOn(i) :
                                  \A d \in FinishedOn(i) : ReturnOrder(d) <= ReturnOrder(c)
                   IN instances[i].status = OutcomeStatus(calls[last]))

\* C12 witness: two executions overlapped on the pooled instance of one name;
\* the one that returned first left a terminal status, list_active_agents omits
\* the name, and the other execution is still awaiting its process.
C12_Witness ==
    \E n \in Names :
        /\ pool[n] # 0
        /\ instances[pool[n]].status \in Terminal
        /\ n \notin ListActiveAgents
        /\ FinishedOn(pool[n]) # {} /\ InFlightOn(pool[n]) # {}
        /\ \E c \in FinishedOn(pool[n]), d \in InFlightOn(pool[n]) : d < c

\* C13: create_agent(name, config, reuse_existing) returns the pooled instance
\* without invoking the factory when name is pooled and reuse_existing is true;
\* otherwise it asks the registry, and a built instance becomes pool[name] while a
\* failure returns None and leaves the pool as it was.  While an instance stays
\* pooled under its name, no step builds another instance of that name.
C13_CreateAgent ==
    /\ [](\A n \in Names, r \in BOOLEAN, k \in FactoryKinds :
            LET got == ManagerCreateAgent(n, NoOverride, r, k) IN
            IF r /\ pool[n] # 0
            THEN /\ got.agent = pool[n]
                 /\ got.factory_calls = 0
                 /\ got.pool = pool /\ got.instances = instances
            ELSE IF IsRegistered(n) /\ k = "ok"
            THEN /\ got.agent = Len(instances) + 1
                 /\ got.factory_calls = 1
                 /\ got.instances = Append(instances, NewAgent(GetConfig(n)[1]))
                 /\ got.pool = [pool EXCEPT ![n] = got.agent]
            ELSE /\ got.agent = 0
                 /\ got.pool = pool /\ got.instances = instances)
    /\ [][\A n \in Names :
            (pool[n] # 0 /\ pool'[n] = pool[n])
                => \A i \in (Len(instances) + 1)..Len(instances') :
                       instances'[i].name # n]_vars

\* C13 witness: create_agent without reuse has replaced the pooled instance of a
\* name by a second instance of that name.
C13_Witness ==
    \E n \in Names :
        /\ Len(instances) = 2
        /\ instances[1].name = n /\ instances[2].name = n
        /\ pool[n] = 2

\* AgentRegistry.create_agent returns in this step.
CreateReturns == ret' # ret /\ ret'.op = "create_agent"

\* C14: for every registered name N, however it was registered,
\* create_agent(N) returns an instance whose config.name is N.
C14_CreatedNameIsKey ==
    [][(CreateReturns /\ ret'.override = NoOverride /\ ret'.made # <<>>)
          => ret'.made[1].name = ret'.name]_vars

\* The merge the claim describes: the registered config with exactly the fields
\* the override was built with replaced.
ExpectedMerge(base, override) ==
    [f \in ConfigFields |->
        IF f \in override.given THEN override.config[1][f] ELSE base[f]]

\* C15: the config create_agent hands to the factory is the registered config
\* with exactly the fields set in the override replaced; a field the override
\* does not set keeps its registered value.
C15_MergeReplacesGivenFields ==
    [][(CreateReturns /\ ret'.override # NoOverride /\ ret'.passed # <<>>)
          => ret'.passed = <<ExpectedMerge(GetConfig(ret'.name)[1], ret'.override)>>]_vars

\* C16: create_agent returns to its caller on every input: None for a name that
\* is not registered and when the factory raises or builds nothing, an agent
\* otherwise; the three dicts of the registry are unchanged by the call.
C16_CreateAgentNeverRaises ==
    [][CreateReturns
          => /\ registry' = registry
             /\ (~IsRegistered(ret'.name) \/ ret'.built # "ok")
                    => (ret'.made = <<>> /\ ~ret'.ok)
             /\ (IsRegistered(ret'.name) /\ ret'.built = "ok")
                    => (ret'.made # <<>> /\ ret'.ok)]_vars

\* C16 witness: create_agent of a registered name has returned None after its
\* factory raised on the config handed to it.
C16_Witness ==
    /\ ret.op = "create_agent" /\ IsRegistered(ret.name)
    /\ ret.built = "raises" /\ ret.passed # <<>> /\ ret.made = <<>>

\* The entries of every name but n are the same before and after the step.
OthersKept(n) ==
    \A x \in Names \ {n} :
        /\ GetFactory(x)' = GetFactory(x)
        /\ GetConfig(x)' = GetConfig(x)
        /\ GetMetadata(x)' = GetMetadata(x)

\* C17: register stores the entry it is given over any existing one; unregister
\* removes the entry and returns true exactly when there was one, after which
\* get_factory, get_config and get_metadata return None for the name and
\* list_agents omits it.  Neither touches the entry of another name.
C17_RegisterUnregister ==
    /\ [](\A n \in Names, f \in Factories, m \in MetadataArgs : \A c \in ConfigArgs(n) :
            LET after == Registered(n, f, c, m) IN
            /\ after.agents[n] = <<f>>
            /\ after.configs[n] = (IF c # <<>> THEN c ELSE <<GetDefaultConfig>>)
            /\ after.metadata[n] = <<MetadataOrEmpty(m)>>
            /\ \A x \in Names \ {n} :
                 /\ after.agents[x] = GetFactory(x)
                 /\ after.configs[x] = GetConfig(x)
                 /\ after.metadata[x] = GetMetadata(x))
    /\ [][\A n \in Names :
            Unregister(n)
                => /\ ret'.ok = IsRegistered(n)
                   /\ GetFactory(n)' = <<>> /\ GetConfig(n)' = <<>>
                   /\ GetMetadata(n)' = <<>>
                   /\ n \notin ListAgents'
                   /\ OthersKept(n)]_vars

\* C17 witness: unregister has returned true for a registered name; the name is
\* gone from the three dicts and the other name is still registered.
C17_Witness ==
    /\ ret.op = "unregister" /\ ret.ok
    /\ ret.name \notin ListAgents /\ GetConfig(ret.name) = <<>>
    /\ ListAgents # {}

\* C18: health_check with a name returns the probe result of that instance, or
\* not_found when the name is not pooled; without a name it probes every pooled
\* instance once, goes on to the next instance whatever a probe reported, and
\* its overall_status is healthy exactly when every probe reported healthy,
\* degraded otherwise.  No step of health_check changes an AgentStatus.
C18_HealthCheck ==
    /\ [][health' # health
            => /\ instances' = instances
               /\ (health.state = "none" /\ health'.arg # NoName)
                    => IF pool[health'.arg] = 0
                       THEN health'.state = "done" /\ health'.status = "not_found"
                       ELSE health'.state = "probing" /\ health'.keys = <<health'.arg>>
               /\ (health.state = "none" /\ health'.arg = NoName)
                    => /\ {health'.keys[i] : i \in 1..Len(health'.keys)} = PooledNames
                       /\ Len(health'.keys) = Cardinality(PooledNames)
               /\ health.state = "probing"
                    => /\ Probed(health') = Probed(health) + 1
                       /\ health'.state = "done" <=> Probed(health') = Len(health.keys)]_vars
    /\ [](health.state = "done"
            => /\ \A i \in 1..Len(health.keys) : health.results[health.keys[i]] \in ProbeOutcomes
               /\ (health.arg # NoName /\ health.status # "not_found")
                    => health.status = health.results[health.arg]
               /\ health.arg = NoName
                    => /\ health.overall \in {"healthy", "degraded"}
                       /\ health.overall = "healthy"
                            <=> \A i \in 1..Len(health.keys) :
                                   health.results[health.keys[i]] = "healthy")

\* C18 witness: health_check without a name has returned degraded after the
\* probe of the first instance failed and the probe of the second one reported
\* healthy, while an execution was in flight.
C18_Witness ==
    /\ health.state = "done" /\ health.arg = NoName
    /\ Len(health.keys) = 2
    /\ health.results[health.keys[1]] = "unhealthy"
    /\ health.results[health.keys[2]] = "healthy"
    /\ health.overall = "degraded"
    /\ \E i \in 1..Len(instances) : instances[i].status = "running"

\* C19: every response with success=false that execute_agent returns, also one
\* that process itself returned, carries a non-empty error text.
C19_FailureHasError ==
    \A c \in 1..Len(calls) :
        (calls[c].pc = "done" /\ ~calls[c].resp.success) => calls[c].resp.error # ""

\* C20: shutdown leaves the pool empty and changes neither the history, the
\* registry, the calls in flight nor any instance; an execution in flight can
\* still end in each of its outcomes, and when it ends, pooled or not, it
\* writes the status of its outcome and appends its record to the history.
C20_ShutdownLeavesExecutions ==
    /\ [][Shutdown
            => /\ \A n \in Names : pool'[n] = 0
               /\ history' = history /\ registry' = registry
               /\ calls' = calls /\ instances' = instances]_vars
    /\ [][\A c \in 1..Len(calls) :
            (Ends(c) /\ calls[c].pc = "awaiting")
                => /\ pool' = pool
                   /\ history' = RecordExecution(history, calls'[c].resp)
                   /\ instances'[calls[c].inst].status = OutcomeStatus(calls'[c])
                   /\ calls'[c].resp.agent_name = instances[calls[c].inst].name]_vars
    /\ [](\A c \in 1..Len(calls) :
            (calls[c].pc = "awaiting" /\ calls[c].proc = "running")
                => /\ \A r \in ProcessResults : ENABLED ProcessReturns(c, r)
                   /\ ENABLED ProcessRaises(c)
                   /\ ENABLED Deadline(c))

\* C20 witness: an execution of a name was in flight when shutdown emptied the
\* pool; a later call of that name found no pooled instance and could not
\* build one; after that the first execution returned its success and was
\* recorded, and the pool is empty.
C20_Witness ==
    /\ Len(calls) = 2 /\ calls[1].name = calls[2].name
    /\ calls[1].inst # 0 /\ calls[2].inst = 0
    /\ calls[1].pc = "done" /\ calls[1].resp.success
    /\ recorded = <<2, 1>>
    /\ Len(history) = 2 /\ history[2].success
    /\ \A n \in Names : pool[n] = 0

\* C21: one execute_with_timeout call on an enabled agent invokes process exactly
\* once, whatever the max_retries of its config: a call that reached process has
\* made one invocation at every later moment, a cancelled process is never
\* running again, a finished call never changes (one response), and it writes
\* one terminal status, in the step in which it returns; so it times out at
\* most once.
C21_ProcessInvokedOnce ==
    /\ [](\A c \in 1..Len(calls) :
            calls[c].tries = IF calls[c].proc = "none" THEN 0 ELSE 1)
    /\ [][\A c \in 1..Len(calls) :
            /\ calls[c].pc = "done" => calls'[c] = calls[c]
            /\ calls[c].proc = "cancelling" => calls'[c].proc # "running"
            /\ (calls[c].pc = "awaiting" /\ calls'[c].pc = "awaiting")
                  => \A i \in 1..Len(instances) :
                        (instances'[i].status # instances[i].status
                            /\ instances'[i].status \in Terminal)
                          => \E d \in 1..Len(calls) : d # c /\ Ends(d)
            /\ (Ends(c) /\ calls'[c].proc # "none")
                  => instances'[calls[c].inst].status \in Terminal]_vars

\* A call on an instance whose max_retries is 3 timed out after one invocation
\* of process.
C21_Witness ==
    \E c \in 1..Len(calls) :
        /\ calls[c].pc = "done" /\ calls[c].proc = "cancelled"
        /\ calls[c].resp.error = "timeout"
        /\ calls[c].tries = 1
        /\ instances[calls[c].inst].max_retries = DefaultMaxRetries

\* The node order the graphs are claimed to run in.
ClaimedOrder(class) ==
    CASE class = "ETLDevelopmentAgent" -> <<"parse_request", "query_etl", "generate_etl">>
      [] class = "MetricManagementAgent" ->
            <<"analyze_request", "query_metric", "execute_operation">>
      [] class = "TableManagementAgent" ->
            <<"analyze_request", "query_table", "execute_operation">>

\* A graph of two nodes over an integer: double, then increment.
ExampleEdges == {<<START, "double">>, <<"double", "increment">>, <<"increment", END>>}
ExampleEffect(node, v) == IF node = "double" THEN 2 * v ELSE v + 1

\* The value the engine's edge walk returns from node on, with value v.
RECURSIVE ExampleRun(_, _)
ExampleRun(node, v) ==
    IF node = END THEN v
    ELSE ExampleRun(NextNode(ExampleEdges, node), ExampleEffect(node, v))

C24_RunErrorBecomesFailure ==
    /\ [](\A c \in 1..Len(calls) : calls[c].proc # "raised")
    /\ [][\A c \in 1..Len(calls) :
            (/\ Ends(c) /\ calls[c].proc = "running"
             /\ wf.mode = "invoke" /\ wf.call = c /\ wf.state = "raised")
              => /\ calls'[c].proc = "returned"
                 /\ ~calls'[c].resp.success
                 /\ calls'[c].resp.error = "process_error"
                 /\ instances'[calls[c].inst].status = "failed"
                 /\ history'[Len(history')].success = FALSE]_vars

\* A node of a graph raised and the execution returned the failure
\* process built.
C24_Witness ==
    /\ wf.mode = "invoke" /\ wf.state = "raised"
    /\ calls[wf.call].pc = "done" /\ calls[wf.call].proc = "returned"
    /\ calls[wf.call].resp.error = "process_error"
    /\ instances[calls[wf.call].inst].status = "failed"

\* C25: a session_id the caller supplies to execute_agent reaches process
\* unchanged, together with the other named parameters, and is the session_id
\* of the returned response and of the history record on every path (success,
\* agent failure, timeout, disabled agent, instance-creation failure).
C25_SessionIdPassedThrough ==
    /\ [](\A c \in 1..Len(calls) :
            /\ calls[c].proc # "none"
                  => calls[c].proc_sid = calls[c].sid /\ calls[c].proc_extra = calls[c].extra
            /\ (calls[c].pc = "done" /\ calls[c].sid # NoSid)
                  => calls[c].resp.session_id = calls[c].sid)
    /\ [][\A c \in 1..Len(calls') :
            (Ends(c) /\ calls'[c].sid # NoSid)
              => /\ Len(history') > 0
                 /\ history'[Len(history')].session_id = calls'[c].sid]_vars

\* With session id s1 supplied, one call was refused by a disabled agent and
\* another, whose process was handed s1 and a table name, timed out; both
\* returned s1.
C25_Witness ==
    \E c, d \in 1..Len(calls) :
        /\ calls[c].pc = "done" /\ calls[c].sid = "s1"
        /\ calls[c].resp.error = "disabled" /\ calls[c].resp.session_id = "s1"
        /\ calls[d].pc = "done" /\ calls[d].sid = "s1"
        /\ calls[d].resp.error = "timeout" /\ calls[d].resp.session_id = "s1"
        /\ calls[d].proc_sid = "s1" /\ calls[d].proc_extra = "table_name=user_table"

\* The retained records of agent_name (all of them for NoName), in insertion order.
Matching(agent_name) ==
    SelectSeq(history, LAMBDA h : agent_name = NoName \/ h.agent_name = agent_name)

\* The n most recent elements of s, for n >= 0.
MostRecent(s, n) == SubSeq(s, Len(s) - Min(n, Len(s)) + 1, Len(s))

\* C26: get_execution_history(agent_name, limit) returns, in insertion order,
\* the retained records whose agent_name matches (all of them when no
\* agent_name is given), cut down to the most recent limit of them whenever a
\* limit is given, for every limit >= 0.
C26_HistoryCutToLimit ==
    \A n \in Names \cup {NoName} :
        /\ GetExecutionHistory(n, <<>>) = Matching(n)
        /\ \A limit \in 0..MaxLimit :
              GetExecutionHistory(n, <<limit>>) = MostRecent(Matching(n), limit)

\* C27: get_statistics counts over the retained history only: total_executions
\* is the number of retained records, never above the cap however many
\* executions were recorded; successful_executions and failed_executions are
\* the numbers of retained successes and failures and add up to the total;
\* agents_count is the pool size.
C27_StatisticsOverRetained ==
    LET st == GetStatistics IN
    /\ st.total_executions = Len(history)
    /\ st.total_executions <= MaxHistory
    /\ st.successful_executions = Cardinality({i \in DOMAIN history : history[i].success})
    /\ st.failed_executions = Cardinality({i \in DOMAIN history : ~history[i].success})
    /\ st.successful_executions + st.failed_executions = st.total_executions
    /\ st.agents_count = Cardinality({n \in Names : pool[n] # 0})

\* More executions were recorded than the cap keeps; the statistics count the
\* cap's worth, a success and a failure among them, and one pooled instance.
C27_Witness ==
    /\ Len(recorded) > MaxHistory
    /\ GetStatistics.total_executions = MaxHistory
    /\ GetStatistics.successful_executions >= 1
    /\ GetStatistics.failed_executions >= 1
    /\ GetStatistics.agents_count = 1

\* C28: MetricManagementAgent.process_stream emits a "starting" chunk first,
\* then one chunk per executed node in graph order (analyze_request,
\* query_metric, execute_operation), then a final "completed" chunk; when the
\* run raises, the final chunk is an "error" chunk and no "completed" chunk is
\* emitted.
C28_StreamChunks ==
    wf.mode = "stream" =>
        LET ch == wf.chunks
            order == ClaimedOrder("MetricManagementAgent")
        IN /\ Len(ch) >= 1 /\ ch[1] = "starting"
           /\ Len(ch) >= 1 + Len(wf.value)
           /\ SubSeq(ch, 2, 1 + Len(wf.value)) = wf.value
           /\ wf.value = SubSeq(order, 1, Len(wf.value))
           /\ wf.state = "running" => Len(ch) = 1 + Len(wf.value)
           /\ wf.state = "done" => ch = <<"starting">> \o order \o <<"completed">>
           /\ wf.state = "raised" =>
                 /\ ch = <<"starting">> \o wf.value \o <<"error">>
                 /\ \A k \in 1..Len(ch) : ch[k] # "completed"

\* A streamed run completed: starting, the three node chunks, completed.
C28_Witness ==
    /\ wf.mode = "stream" /\ wf.state = "done"
    /\ wf.chunks = <<"starting", "analyze_request", "query_metric", "execute_operation",
                    "completed">>

\* The calls of a name that are suspended in process.
InFlight(n) ==
    {c \in 1..Len(calls) : calls[c].name = n /\ calls[c].pc = "awaiting"}

\* The calls of a name that obtained an instance.
Served(n) == {c \in 1..Len(calls) : calls[c].name = n /\ calls[c].inst # 0}

\* C29: when several execute_agent calls for the same name, not pooled before
\* them, are in flight concurrently, as inside one execute_parallel batch, the
\* factory was invoked exactly once by them and they all run on the same
\* instance: the one call that found the pool empty built and pooled the
\* instance before any other call could look.
C29_OneInstancePerName ==
    \A n \in Names :
        /\ \A c, d \in Served(n) : calls[c].inst = calls[d].inst
        /\ Served(n) # {} =>
              /\ Cardinality({c \in Served(n) : calls[c].factory_calls = 1}) = 1
              /\ \A c \in Served(n) : calls[c].factory_calls <= 1
              /\ Cardinality({i \in 1..Len(instances) : instances[i].name = n}) = 1

\* Two calls of one batch for the same name are in flight at once on one
\* instance, built by the first of them.
C29_Witness ==
    \E n \in Names :
        /\ batch.state = "running"
        /\ Cardinality(InFlight(n)) = 2
        /\ \A c \in InFlight(n) : calls[c].inst = 1
        /\ Len(instances) = 1
        /\ \E c, d \in InFlight(n) :
              c < d /\ calls[c].factory_calls = 1 /\ calls[d].factory_calls = 0

\* C30: health_check() over all instances never raises and returns its
\* aggregated result, also when other operations of the manager (an
\* execute_agent that pools a new instance, create_agent, remove_agent,
\* clear_all_agents, shutdown) run while one of its probes is suspended.
C30_HealthCheckNeverRaises ==
    health.state # "raised"

\* C31: execute_agent(name, input, config=C) for a pooled name runs on the
\* pooled instance as it was built: the factory is not invoked, the pool and the
\* instance's configuration stay as they are, whatever C is and whether or not
\* the name is registered now; a change of the registry changes neither pool nor
\* instances; and a pooled instance leaves the pool only through remove_agent
\* or a clearing of the pool (clear_all_agents, shutdown).
C31_PooledInstanceKeepsConfig ==
    [][/\ \A c \in 1..Len(calls') :
            (Starts(c) /\ pool[calls'[c].name] # 0)
              => LET i == pool[calls'[c].name] IN
                 /\ calls'[c].inst = i
                 /\ calls'[c].factory_calls = 0
                 /\ pool' = pool
                 /\ Len(instances') = Len(instances)
                 /\ instances'[i].name = instances[i].name
                 /\ instances'[i].enabled = instances[i].enabled
                 /\ instances'[i].max_retries = instances[i].max_retries
       /\ registry' # registry => (pool' = pool /\ instances' = instances)
       /\ \A n \in Names :
            (pool[n] # 0 /\ pool'[n] # pool[n])
              => /\ pool'[n] = 0
                 /\ \/ ret'.op = "remove_agent" /\ ret'.name = n /\ ret'.ok
                    \/ pool' = ClearAllAgents]_vars

\* A call that passed a config with enabled=false runs on the pooled instance,
\* which is enabled as it was built, while its name is not registered any more.
C31_Witness ==
    \E c \in 1..Len(calls) :
        /\ calls[c].config # NoOverride
        /\ ~calls[c].config.config[1].enabled
        /\ calls[c].pc = "awaiting" /\ calls[c].factory_calls = 0
        /\ instances[calls[c].inst].enabled
        /\ pool[calls[c].name] = calls[c].inst
        /\ ~IsRegistered(calls[c].name)

\* C32: for every call execute_agent(name, ...) the returned response and its
\* history record carry agent_name equal to the requested name, and every
\* pooled instance stored under key name has instance.name equal to that key.
C32_AgentNameIsRequestedName ==
    /\ \A c \in 1..Len(calls) :
          calls[c].pc = "done" => calls[c].resp.agent_name = calls[c].name
    /\ \A i \in 1..Len(history) : history[i].agent_name \in Names
    /\ \A n \in Names : pool[n] # 0 => instances[pool[n]].name = n

\* C33: every response returned by execute_agent carries a non-empty
\* session_id: the caller's when one is supplied, otherwise a derived one, on
\* every path including a disabled agent.
C33_SessionIdNeverEmpty ==
    \A c \in 1..Len(calls) :
        calls[c].pc = "done" =>
            /\ calls[c].resp.session_id # ""
            /\ calls[c].sid # NoSid => calls[c].resp.session_id = calls[c].sid

\* The step is a return of remove_agent(n): either the logged return changed, or
\* it repeats the last logged return, a true one, and emptied n's pool entry
\* only.
RemoveReturned(n) ==
    /\ ret'.op = "remove_agent" /\ ret'.name = n
    /\ \/ ret' # ret
       \/ /\ ret.ok /\ pool[n] # 0 /\ pool'[n] = 0
          /\ \A m \in Names \ {n} : pool'[m] = pool[m]

\* C34: remove_agent(name) returns true exactly when the name was pooled and
\* does not cancel an execution of that instance that is in flight: no call
\* changes in the step, the execution later finishes on the detached instance
\* and is recorded in history, and the next execute_agent(name) constructs a
\* fresh instance that is entered from idle.
C34_RemoveLeavesExecutionRunning ==
    [][ /\ \A n \in Names :
              RemoveReturned(n) =>
                 /\ ret'.ok = (pool[n] # 0)
                 /\ pool'[n] = 0
                 /\ calls' = calls /\ instances' = instances /\ history' = history
        /\ \A c \in 1..Len(calls) :
              (calls[c].pc = "awaiting" /\ calls'[c].pc = "done") =>
                 /\ history' = RecordExecution(history, calls'[c].resp)
                 /\ instances'[calls[c].inst].status \in Terminal
                 /\ pool' = pool
        /\ (Len(calls') > Len(calls) /\ pool[calls'[Len(calls')].name] = 0
              /\ calls'[Len(calls')].inst # 0) =>
              LET call == calls'[Len(calls')] IN
              /\ call.inst = Len(instances) + 1
              /\ pool'[call.name] = call.inst
              /\ instances'[call.inst].status =
                    IF instances'[call.inst].enabled THEN "running" ELSE "idle"
      ]_vars

\* An execution was in flight on an instance when remove_agent took that
\* instance out of the pool; a later execute_agent of the same name ran on a
\* fresh instance and finished first, then the detached execution finished and
\* was recorded after it.
C34_Witness ==
    /\ Len(calls) = 2 /\ calls[1].name = calls[2].name
    /\ calls[1].pc = "done" /\ calls[2].pc = "done"
    /\ calls[1].inst # 0 /\ calls[2].inst # 0 /\ calls[1].inst # calls[2].inst
    /\ recorded = <<2, 1>>
    /\ ret.op = "remove_agent" /\ ret.ok /\ ret.name = calls[1].name

\* C35: in Registry.create_agent with an override, the merged enabled flag is
\* the override's value when the override sets it and the registered default's
\* otherwise: an agent registered with enabled=false stays disabled when it is
\* created with an override that only sets other fields.
C35_EnabledFallsBackToRegistered ==
    [][(CreateReturns /\ ret'.override # NoOverride /\ ret'.passed # <<>>)
          => ret'.passed[1].enabled =
                IF "enabled" \in ret'.override.given
                THEN ret'.override.config[1].enabled
                ELSE GetConfig(ret'.name)[1].enabled]_vars

\* str(i) for the indices enumerate(tasks) yields
Digits == <<"0", "1", "2", "3", "4", "5", "6", "7", "8", "9">>
TaskLabel(i) == "task_" \o Digits[i]

\* C36: execute_parallel tolerates a task descriptor that lacks agent_name: it
\* does not raise, slot i then holds a success=false response whose agent_name
\* is task_i, the list still has len(tasks) entries, and the other tasks still
\* run.
C36_MissingNameTolerated ==
    /\ batch.state # "raised"
    /\ batch.state # "none" =>
          \A i \in (1..batch.n) \ batch.missing :
             \E c \in 1..Len(calls) : calls[c].slot = i
    /\ batch.state = "done" =>
          /\ Len(batch.results) = batch.n
          /\ \A i \in batch.missing :
                /\ ~batch.results[i].success
                /\ batch.results[i].agent_name = TaskLabel(i)

\* C37: after any sequence of register, register_class, unregister and clear,
\* the registry's factory map, config map and metadata map have the same key
\* set, so get_agent_info(name) is complete for every name in list_agents():
\* it returns a factory, a config and a metadata dict.
C37_RegistryMapsShareKeys ==
    /\ Keys(registry.agents) = Keys(registry.configs)
    /\ Keys(registry.agents) = Keys(registry.metadata)
    /\ \A n \in ListAgents :
          LET info == GetAgentInfo(n) IN
          /\ info.state = "info"
          /\ info.factory # <<>> /\ info.config # <<>> /\ info.metadata # <<>>

\* C37 witness: one name is registered with the empty metadata dict register
\* stores when it is given none, and unregister has just removed the other name.
C37_Witness ==
    /\ ret.op = "unregister" /\ ret.ok /\ ~IsRegistered(ret.name)
    /\ \E n \in Names \ {ret.name} :
          /\ IsRegistered(n)
          /\ GetAgentInfo(n).metadata = <<MetadataOrEmpty("none")>>

\* ------------------------------------------ metric and table workflow nodes
\* MetricOperationType / the operation types of TableAnalysisResult
OperationTypes == {"create", "update", "query"}

\* The keys of operation_map in MetricManagementAgent._analyze_request (lines
\* 384-388), transliterated: chuangjian, xinzeng, zengjia map to create; xiugai,
\* gengxin, biangeng to update; chaxun, chakan, sousuo to query.
CreateWords == {"chuangjian", "xinzeng", "zengjia"}
UpdateWords == {"xiugai", "gengxin", "biangeng"}
QueryWords == {"chaxun", "chakan", "sousuo"}

\* operation_map.get(operation_text, "create")
OperationMap(operation_text) ==
    IF operation_text \in CreateWords THEN "create"
    ELSE IF operation_text \in UpdateWords THEN "update"
    ELSE IF operation_text \in QueryWords THEN "query"
    ELSE "create"

\* What the analysis chain can hand back as operation_type: the types the
\* output model documents, the words of operation_map, another string; or the
\* chain raises.
MetricTexts ==
    OperationTypes \cup CreateWords \cup UpdateWords \cup QueryWords \cup {"delete"}
TableTexts == OperationTypes \cup {"delete"}
Lookups == {"ok", "raises", "skipped"}

\* process builds the initial state and invokes the graph; the first node is
\* analyze_request.
FlowStart(agent, llm, lookup, found, built) ==
    /\ flow = NoFlow
    /\ flow' = [NoFlow EXCEPT !.agent = agent, !.at = "analyze_request",
                              !.llm = llm, !.lookup = lookup, !.found = found,
                              !.built = built]
    /\ UNCHANGED <<registry, instances, pool, history, calls, recorded, batch, ret,
                   health, wf, http>>

\* MetricManagementAgent._analyze_request, lines 372-406: the chain's
\* operation_type goes through operation_map; on any exception the default
\* analysis with operation_type "create" is stored.
MetricAnalyzed(f) ==
    [f EXCEPT !.operation_type = IF f.llm = "raises" THEN "create"
                                 ELSE OperationMap(f.llm),
              !.at = "query"]

\* TableManagementAgent._analyze_request, lines 100-133: the parsed result is
\* stored as it is; on any exception a default result with operation_type
\* "create".
TableAnalyzed(f) ==
    [f EXCEPT !.operation_type = IF f.llm = "raises" THEN "create" ELSE f.llm,
              !.at = "query"]

\* _query_metric (metric_agent 410-440) and _query_table (table_agent 135-162):
\* the existing entity is what the query returned, None when the query was
\* skipped for want of a name or raised.
Queried(f) ==
    [f EXCEPT !.existing = (f.lookup = "ok" /\ f.found),
              !.at = "execute_operation"]

\* MetricManagementAgent._execute_operation, lines 442-508.  built is what the
\* schema helper returns: "ok" a schema, "none" None, "raises" an exception,
\* which the try of line 453 turns into success False.
MetricExecuted(f) ==
    LET made == IF f.built = "ok" THEN [f EXCEPT !.success = TRUE]
                ELSE [f EXCEPT !.success = FALSE]
        done == CASE f.operation_type = "create" ->
                        IF f.existing THEN [f EXCEPT !.success = TRUE] ELSE made
                  [] f.operation_type = "update" ->
                        IF f.existing THEN made ELSE [f EXCEPT !.success = FALSE]
                  [] f.operation_type = "query" -> [f EXCEPT !.success = TRUE]
                  [] OTHER -> [f EXCEPT !.success = FALSE]
    IN [done EXCEPT !.branch = IF f.operation_type \in OperationTypes
                               THEN f.operation_type ELSE "unsupported",
                    !.at = "process"]

\* TableManagementAgent._execute_operation, lines 164-292.  built is what the
\* construction of the TableInfo does: "ok", or "raises" (a validation error),
\* which the except of line 279 turns into status error and success False.  A
\* branch that builds no TableInfo cannot raise.
TableExecuted(f) ==
    LET builds == \/ f.operation_type = "create"
                  \/ f.operation_type \in {"update", "query"} /\ f.existing
        status == CASE f.operation_type = "create" ->
                          IF f.existing THEN "exist" ELSE "success"
                    [] f.operation_type \in {"update", "query"} ->
                          IF f.existing THEN "success" ELSE "not_exist"
                    [] OTHER -> "error"
    IN IF builds /\ f.built # "ok"
       THEN [f EXCEPT !.branch = "raised", !.status = "error", !.success = FALSE,
                      !.at = "process"]
       ELSE [f EXCEPT !.branch = IF f.operation_type \in OperationTypes
                                 THEN f.operation_type ELSE "unknown",
                      !.status = status, !.success = TRUE, !.at = "process"]

\* The node the graph runs next, for the agent of the run.
NodeRuns ==
    /\ flow.at \in {"analyze_request", "query", "execute_operation"}
    /\ flow' = CASE flow.at = "analyze_request" ->
                       IF flow.agent = "metric" THEN MetricAnalyzed(flow)
                       ELSE TableAnalyzed(flow)
                 [] flow.at = "query" -> Queried(flow)
                 [] flow.at = "execute_operation" ->
                       IF flow.agent = "metric" THEN MetricExecuted(flow)
                       ELSE TableExecuted(flow)
    /\ UNCHANGED <<registry, instances, pool, history, calls, recorded, batch, ret,
                   health, wf, http>>

\* process after graph.ainvoke returned (metric_agent 187-203, table_agent
\* 309-329): the response's success is the state's success.
FlowReturns ==
    /\ flow.at = "process"
    /\ flow' = [flow EXCEPT !.response = <<flow.success>>, !.at = "done"]
    /\ UNCHANGED <<registry, instances, pool, history, calls, recorded, batch, ret,
                   health, wf, http>>

\* One run of the metric workflow on any analysis, lookup and schema outcome.
NextMetric ==
    \/ \E llm \in MetricTexts \cup {"raises"}, lookup \in Lookups, found \in BOOLEAN,
          built \in {"ok", "none", "raises"} :
          FlowStart("metric", llm, lookup, found, built)
    \/ NodeRuns
    \/ FlowReturns

SpecMetric == Init /\ [][NextMetric]_vars

\* One run of the table workflow on any analysis, lookup and construction
\* outcome.
NextTable ==
    \/ \E llm \in TableTexts \cup {"raises"}, lookup \in Lookups, found \in BOOLEAN,
          built \in {"ok", "raises"} :
          FlowStart("table", llm, lookup, found, built)
    \/ NodeRuns
    \/ FlowReturns

SpecTable == Init /\ [][NextTable]_vars

\* The node has run in this run of the workflow.
Passed(node) ==
    CASE node = "analyze_request" -> flow.at \in {"query", "execute_operation", "process", "done"}
      [] node = "execute_operation" -> flow.at \in {"process", "done"}

\* C38: in the metric workflow, for each operation type T in {create, update,
\* query} produced by the request analysis, analyze_request stores T as the
\* state's operation_type and execute_operation then runs the branch of that
\* same type T.
C38_AnalysedTypeIsExecuted ==
    (flow.agent = "metric" /\ flow.llm \in OperationTypes) =>
        /\ Passed("analyze_request") => flow.operation_type = flow.llm
        /\ Passed("execute_operation") => flow.branch = flow.llm

\* C39: in the table workflow, execute_operation maps (operation type, table
\* exists) to a result status: create+exists gives exist, create+absent gives
\* success, update+absent gives not_exist, update+exists gives success,
\* query+absent gives not_exist, query+exists gives success, any other type
\* gives error (as long as building the table information does not fail);
\* process returns success=true exactly when the result status is not error.
C39_TableStatusAndSuccess ==
    (flow.agent = "table" /\ Passed("execute_operation")) =>
        /\ flow.branch # "raised" =>
              flow.status =
                 CASE flow.operation_type = "create" /\ flow.existing -> "exist"
                   [] flow.operation_type = "create" /\ ~flow.existing -> "success"
                   [] flow.operation_type = "update" /\ ~flow.existing -> "not_exist"
                   [] flow.operation_type = "update" /\ flow.existing -> "success"
                   [] flow.operation_type = "query" /\ ~flow.existing -> "not_exist"
                   [] flow.operation_type = "query" /\ flow.existing -> "success"
                   [] OTHER -> "error"
        /\ flow.response # <<>> => (flow.response[1] <=> flow.status # "error")

\* ------------------------------------------------------------- HTTP layer
\* The names register_table_agent, register_etl_agent and
\* register_metric_agent put into the global registry.
ImportedNames == {"table_management", "etl_development", "metric_management"}

\* The routes of main_api that call agent_manager.execute_agent, and the
\* agent_name each passes.
Routes == {"/api/table", "/api/etl", "/api/metric"}
RouteAgent(route) ==
    CASE route = "/api/table" -> "table_generation"
      [] route = "/api/etl" -> "etl_management"
      [] route = "/api/metric" -> "metric_management"

\* agents/__init__.py, run once when main_api imports the package: the three
\* register functions fill the global registry the manager reads.
ImportAgents ==
    /\ ~http.imported
    /\ http' = [http EXCEPT !.imported = TRUE, !.registered = ImportedNames]
    /\ UNCHANGED <<registry, instances, pool, history, calls, recorded, batch, ret,
                   health, wf, flow>>

\* A handler calls execute_agent(RouteAgent(route), ...) up to its first
\* suspension: a pooled instance is reused; otherwise the registry builds one,
\* and execute_agent returns the instance-creation failure when the name is not
\* registered or the factory builds nothing, which the handler turns into
\* HTTP 500.
HttpRequest(route, built) ==
    LET name == RouteAgent(route)
        request == [route |-> route, agent_name |-> name, pc |-> "awaiting",
                    outcome |-> ""]
    IN /\ http.imported
       /\ Len(http.requests) < MaxRequests
       /\ http' =
             IF name \in http.pooled
             THEN [http EXCEPT !.requests = Append(@, request)]
             ELSE IF name \notin http.registered
             THEN [http EXCEPT !.requests =
                      Append(@, [request EXCEPT !.pc = "done",
                                                !.outcome = "not_registered"])]
             ELSE IF built # "ok"
             THEN [http EXCEPT !.requests =
                      Append(@, [request EXCEPT !.pc = "done",
                                                !.outcome = "factory_failed"])]
             ELSE [http EXCEPT !.pooled = @ \cup {name},
                               !.requests = Append(@, request)]
       /\ UNCHANGED <<registry, instances, pool, history, calls, recorded, batch, ret,
                      health, wf, flow>>

\* The agent's execute_with_timeout returns and the handler answers: 200 on a
\* success with data, 500 otherwise.
HttpAgentReturns(i, success) ==
    /\ i \in 1..Len(http.requests)
    /\ http.requests[i].pc = "awaiting"
    /\ http' = [http EXCEPT !.requests[i].pc = "done",
                            !.requests[i].outcome =
                               IF success THEN "answered" ELSE "agent_failed"]
    /\ UNCHANGED <<registry, instances, pool, history, calls, recorded, batch, ret,
                   health, wf, flow>>

\* The application from import on, under any requests.
NextHttp ==
    \/ ImportAgents
    \/ \E route \in Routes, k \in FactoryKinds : HttpRequest(route, k)
    \/ \E i \in 1..MaxRequests, success \in BOOLEAN : HttpAgentReturns(i, success)

SpecHttp == Init /\ [][NextHttp]_vars

\* C40: every agent name that the HTTP layer passes to Manager.execute_agent
\* (/api/table, /api/etl, /api/metric) is a name registered when the agents
\* package is imported, so no request ends in the instance-creation failure
\* for want of a registration.
C40_HttpNamesAreRegistered ==
    \A i \in 1..Len(http.requests) :
        /\ http.requests[i].agent_name \in http.registered
        /\ http.requests[i].outcome # "not_registered"

====
